---- MODULE Spec2Model ----
(***************************************************************************)
(* BD_to_AVP: the processing thread of the GUI driving process() /          *)
(* process_each() over one source or a folder of sources, the stage guards, *)
(* the stereo split (two ffmpeg encoders reading named pipes written by the *)
(* FRIM decoder) and the operator-mediated recovery handlers.               *)
(***************************************************************************)
EXTENDS Integers, Sequences, FiniteSets, TLC

(***************************************************************************)
(* Stage (modules/config.py): Enum with auto() values 1..9.                 *)
(***************************************************************************)
CREATE_MKV == 1
EXTRACT_MVC_AND_AUDIO == 2
EXTRACT_SUBTITLES == 3
CREATE_LEFT_RIGHT_FILES == 4
COMBINE_TO_MV_HEVC == 5
UPSCALE_VIDEO == 6
TRANSCODE_AUDIO == 7
CREATE_FINAL_FILE == 8
MOVE_FILES == 9

Stage == CREATE_MKV .. MOVE_FILES

\* list(Stage)[0]
FirstStage == CREATE_MKV

(***************************************************************************)
(* Bounds of the model.                                                     *)
(***************************************************************************)
\* number of eligible sources found by rglob in folder mode
MaxSources == 2

\* number of Spinner objects (commands with a progress reporter) created
MaxSpinners == 3

\* number of times the processing thread is started
MaxRuns == 2

\* number of lines of cropdetect output
MaxCropLines == 3

\* number of lines of the makemkvcon transcript
MaxTranscript == 4

(***************************************************************************)
(* Sources, artifacts, exceptions.                                          *)
(***************************************************************************)
\* "disc": source_str = "disc:0"; "image": IMAGE_EXTENSIONS; "mkv"; "mts": MTS_EXTENSIONS
SourceKinds == {"disc", "image", "mkv", "mts"}
FolderKinds == {"image", "mkv", "mts"}

\* the files of the per-item output directory
\* {name}_mvc.h264, {name}_audio_PCM.mov, *.srt, {name}_left_movie.mov, ...
Artifacts == {"mkv", "mvc", "audio", "srt", "left", "right", "leftlog", "rightlog",
              "mvhevc", "upscaled", "aac", "muxed"}

Eyes == {"left", "right"}

\* /tmp/left_fifo, /tmp/right_fifo
FifoOf(e) == IF e = "left" THEN "left_fifo" ELSE "right_fifo"
Fifos == {FifoOf(e) : e \in Eyes}

Exceptions == {"ValueError", "FileExistsError", "CalledProcessError", "MKVCreationError",
               "SRTCreationError", "RuntimeError", "FfmpegError", "OSError", "StopIteration"}

VARIABLES
    config,      \* the global Config object (the fields the pipeline reads)
    sources,     \* the kinds of the sources: the one source, or the folder's eligible files
    cur,         \* index of the source process_each works on (config.source_path)
    pc,          \* position of the processing thread
    exc,         \* the exception propagating, or "None"
    gui,         \* state of the main window / processing thread pair
    outdir,      \* per source: the per-item output directory exists
    files,       \* per source: the artifacts in the per-item output directory
    final,       \* per source: output_root/{name}_AVP.mov exists
    source_exists, \* per source: the source file is on disk (a disc is no file)
    fifos,       \* the named pipe paths that exist in /tmp
    enc,         \* per eye: state of the encoder process of the latest split
    dec,         \* state of the decoder process of the latest split
    decOpen,     \* the eyes whose pipe the decoder has opened for writing
    registered,  \* the eyes whose encoder handle is registered with atexit
    orphans,     \* encoder processes of earlier splits that were still running when
                 \* their handle was dropped
    invoked,     \* history: the stages whose tool process_each has invoked for cur
    completed,   \* history: the stages whose tool returned normally for cur
    begun,       \* history: the sources process_each was called for in this attempt
    dirlog,      \* history: what the current process_each did to the output directory
    recovery,    \* history: the last accepted recovery
    split        \* history: how split_mvc_to_stereo went in the current process_each

pipeVars == <<config, sources, cur, pc, exc, gui, outdir, files, final, source_exists, fifos, enc, dec,
              decOpen, registered, orphans, invoked, completed, begun, dirlog, recovery,
              split>>

fsVars == <<outdir, files, final, source_exists>>
procVars == <<enc, dec, decOpen, registered, orphans>>
histVars == <<invoked, completed, begun, dirlog, recovery, split>>

(***************************************************************************)
(* The progress reporter (Spinner, modules/command.py) and cancellation.    *)
(***************************************************************************)
VARIABLES
    spinners,           \* per Spinner object: position of its thread, stop_spinner_flag
    stop_all_spinners,  \* the class attribute Spinner._stop_all_spinners
    worker,             \* the processing thread: the command it runs and where it is
    kill_threads,       \* the names whose kill_process_by_name thread has been started
    killed,             \* history: the names pkill -f has been run for
    terminate_log,      \* history: the last terminate request
    runs                \* history: how often the processing thread was started

spinVars == <<spinners, stop_all_spinners, worker, kill_threads, killed, terminate_log, runs>>

(***************************************************************************)
(* Crop detection and the disc prober, each on its own input.               *)
(***************************************************************************)
VARIABLES
    crop_output,     \* the lines ffmpeg's cropdetect filter has printed
    composite_crop,  \* detect_crop_parameters' return value ("" is the empty tuple)
    crop_pc,         \* "ffmpeg" while cropdetect runs, then "returned"
    makemkv_output,  \* the lines of makemkvcon's robot-mode transcript
    disc_info        \* get_disc_and_mvc_video_info's outcome, once it has ended

cropVars == <<crop_output, composite_crop, crop_pc>>

discVars == <<makemkv_output, disc_info>>

(***************************************************************************)
(* Text functions, each on its own input: the output-exists check           *)
(* (modules/file.py), the display name of a source (modules/disc.py) and    *)
(* the error report of a rip (modules/disc.py).                             *)
(***************************************************************************)
VARIABLES
    target_name,     \* target_path.name, a string of characters
    dir_entries,     \* the names target_path.parent.iterdir() yields
    exists_result,   \* file_exists_normalized's return value, "unset" before the call
    probe_source,    \* the source being probed: its kind, its stem, its CINFO:2,0 name
    probe_name,      \* DiscInfo.name of the descriptor the prober returns
    mkv_output,      \* the lines makemkvcon printed while ripping
    rip_continue,    \* config.continue_on_error during the rip
    rip_result,      \* rip_disc_to_mkv's outcome
    split_input,     \* what split_mvc_to_stereo is given: overrides, probed values, swap_eyes
    commands         \* the three command lines split_mvc_to_stereo builds

existsVars == <<target_name, dir_entries, exists_result>>

nameVars == <<probe_source, probe_name>>

ripVars == <<mkv_output, rip_continue, rip_result>>

cmdVars == <<split_input, commands>>

textVars == <<existsVars, nameVars, ripVars, cmdVars>>

nonPipeVars == <<spinVars, cropVars, discVars, textVars>>

nonSpinVars == <<pipeVars, cropVars, discVars, textVars>>

nonCropVars == <<pipeVars, spinVars, discVars, textVars>>

nonDiscVars == <<pipeVars, spinVars, cropVars, textVars>>

nonExistsVars == <<pipeVars, spinVars, cropVars, discVars, nameVars, ripVars, cmdVars>>

nonNameVars == <<pipeVars, spinVars, cropVars, discVars, existsVars, ripVars, cmdVars>>

nonRipVars == <<pipeVars, spinVars, cropVars, discVars, existsVars, nameVars, cmdVars>>

nonCmdVars == <<pipeVars, spinVars, cropVars, discVars, existsVars, nameVars, ripVars>>

vars == <<pipeVars, nonPipeVars>>

Items == 1 .. Len(sources)

kind == sources[cur]

IsFileSource == kind \in {"mkv", "mts"}

(***************************************************************************)
(* The stage guard: config.start_stage.value <= Stage.X.value               *)
(***************************************************************************)
ShouldRunStrict(stage, start) == start < stage

ShouldRun(stage, start) == start <= stage

(***************************************************************************)
(* Paths derived by process_each.                                           *)
(***************************************************************************)
\* create_upscaled_file's return value: input_path or "{stem} Upscaled"
MvHevcPath == IF config.fx_upscale THEN "upscaled" ELSE "mvhevc"

\* create_transcoded_audio_file's return value
AudioPath ==
    IF config.transcode_audio /\ ShouldRun(TRANSCODE_AUDIO, config.start_stage)
    THEN "aac"
    ELSE IF config.transcode_audio /\ "aac" \in files[cur] THEN "aac" ELSE "audio"

\* the container create_mkv_file returns is readable
MkvPresent == IF IsFileSource THEN TRUE ELSE "mkv" \in files[cur]

\* split_mvc_to_stereo's video_input_path is readable (the source itself for MTS)
MvcPresent == IF kind = "mts" THEN TRUE ELSE "mvc" \in files[cur]

Raise(e) == pc' = "raised" /\ exc' = e

Goto(p) == pc' = p /\ exc' = exc

NoDirLog == [purged |-> FALSE, created |-> FALSE, removed |-> FALSE]

\* stale: the pipe paths temporary_fifo found on disk when it was entered
NoSplit == [state |-> "none", failed |-> {}, stale |-> {}]

NoRecovery == [kind |-> "None", item |-> 0, completed |-> {}, failed |-> 0]

(***************************************************************************)
(* process() and the folder loop (modules/process.py).                      *)
(***************************************************************************)
\* ProcessingThread.run -> start_process -> process: the first source
process ==
    /\ pc = "process"
    /\ cur' = 1
    /\ begun' = {}
    /\ Goto("process_each")
    /\ invoked' = {}
    /\ completed' = {}
    /\ UNCHANGED <<nonPipeVars, config, sources, gui, fsVars, fifos, procVars, dirlog, recovery, split>>

PurgeAlways(start) == TRUE

\* config.start_stage == list(Stage)[0]
IsFirstStage(start) == start = FirstStage

\* prepare_output_folder_for_source, then the tmp folder
prepare_output_folder_for_source ==
    /\ pc = "prepare"
    /\ LET purge == IsFirstStage(config.start_stage) /\ outdir[cur]
       IN /\ files' = [files EXCEPT ![cur] = IF purge THEN {} ELSE @]
          /\ dirlog' = [dirlog EXCEPT !.purged = purge,
                                      !.created = purge \/ ~outdir[cur]]
    /\ outdir' = [outdir EXCEPT ![cur] = TRUE]
    /\ Goto("exists_check")
    /\ UNCHANGED <<nonPipeVars, config, sources, cur, gui, final, source_exists, fifos, procVars,
                   invoked, completed, begun, recovery, split>>

\* if not config.overwrite and file_exists_normalized(completed_path): raise
output_exists_check ==
    /\ pc = "exists_check"
    /\ IF ~config.overwrite /\ final[cur]
       THEN Raise("FileExistsError")
       ELSE Goto("create_mkv")
    /\ UNCHANGED <<nonPipeVars, config, sources, cur, gui, fsVars, fifos, procVars, histVars>>

(***************************************************************************)
(* CREATE_MKV (modules/disc.py).                                            *)
(***************************************************************************)
\* find_largest_file_with_extensions(output_folder, [".mkv"]) or ValueError
FoundMkv(fs) == IF "mkv" \in fs THEN Goto("crop") ELSE Raise("ValueError")

\* rip_disc_to_mkv: run_command(makemkvcon), then the MKV_ERROR_CODES test
rip_disc_to_mkv ==
    /\ invoked' = invoked \cup {CREATE_MKV}
    /\ \/ \* makemkvcon exits non-zero
          /\ \E w \in SUBSET {"mkv"} : files' = [files EXCEPT ![cur] = @ \cup w]
          /\ Raise("CalledProcessError")
          /\ UNCHANGED completed
       \/ \* no known-fatal substring in the output: one container file is left
          /\ files' = [files EXCEPT ![cur] = @ \cup {"mkv"}]
          /\ completed' = completed \cup {CREATE_MKV}
          /\ FoundMkv(files'[cur])
       \/ \* the output holds a known-fatal substring
          /\ \E w \in SUBSET {"mkv"} : files' = [files EXCEPT ![cur] = @ \cup w]
          /\ IF config.continue_on_error
             THEN /\ completed' = completed \cup {CREATE_MKV}
                  /\ FoundMkv(files'[cur])
             ELSE /\ Raise("MKVCreationError")
                  /\ UNCHANGED completed

create_mkv_file ==
    /\ pc = "create_mkv"
    /\ IF IsFileSource
       THEN /\ Goto("crop")
            /\ UNCHANGED <<files, invoked, completed>>
       ELSE IF ShouldRun(CREATE_MKV, config.start_stage)
            THEN rip_disc_to_mkv
            ELSE /\ FoundMkv(files[cur])
                 /\ UNCHANGED <<files, invoked, completed>>
    /\ UNCHANGED <<nonPipeVars, config, sources, cur, gui, outdir, final, source_exists, fifos, procVars,
                   begun, dirlog, recovery, split>>

(***************************************************************************)
(* Crop detection (modules/video.py): not guarded by a stage.               *)
(***************************************************************************)
detect_crop_parameters ==
    /\ pc = "crop"
    /\ \/ Goto("extract")
       \/ /\ config.crop_black_bars
          /\ Raise("FfmpegError")
    /\ UNCHANGED <<nonPipeVars, config, sources, cur, gui, fsVars, fifos, procVars, histVars>>

(***************************************************************************)
(* EXTRACT_MVC_AND_AUDIO (modules/container.py).                            *)
(***************************************************************************)
create_mvc_and_audio ==
    /\ pc = "extract"
    /\ IF ShouldRun(EXTRACT_MVC_AND_AUDIO, config.start_stage)
       THEN /\ invoked' = invoked \cup {EXTRACT_MVC_AND_AUDIO}
            /\ \/ /\ MkvPresent
                  /\ files' = [files EXCEPT ![cur] = @ \cup {"mvc", "audio"}]
                  /\ completed' = completed \cup {EXTRACT_MVC_AND_AUDIO}
                  /\ Goto("srt")
               \/ \* ffmpeg fails: what it had written stays
                  /\ \E w \in SUBSET {"mvc", "audio"} :
                        files' = [files EXCEPT ![cur] = @ \cup w]
                  /\ Raise("FfmpegError")
                  /\ UNCHANGED completed
       ELSE /\ Goto("srt")
            /\ UNCHANGED <<files, invoked, completed>>
    /\ UNCHANGED <<nonPipeVars, config, sources, cur, gui, outdir, final, source_exists, fifos, procVars,
                   begun, dirlog, recovery, split>>

(***************************************************************************)
(* EXTRACT_SUBTITLES (modules/sub.py).                                      *)
(***************************************************************************)
\* extract_subtitle_to_srt; a source may declare a forced subtitle track, whose SRT
\* file is then looked up with next(output_path.glob(...))
extract_subtitle_to_srt ==
    /\ invoked' = invoked \cup {EXTRACT_SUBTITLES}
    /\ \/ \* get_languages_in_mkv: ffmpeg.probe fails
          /\ Raise("FfmpegError")
          /\ UNCHANGED <<files, completed>>
       \/ \* no subtitle tracks in the source
          /\ MkvPresent
          /\ IF ~config.continue_on_error
             THEN Raise("SRTCreationError") /\ UNCHANGED completed
             ELSE Goto("left_right") /\ completed' = completed \cup {EXTRACT_SUBTITLES}
          /\ UNCHANGED files
       \/ \* tracks found, OCR leaves at least one non-empty SRT file
          /\ MkvPresent
          /\ files' = [files EXCEPT ![cur] = @ \cup {"srt"}]
          /\ \/ \* no forced track, or the forced track's SRT file is among them
                /\ completed' = completed \cup {EXTRACT_SUBTITLES}
                /\ Goto("left_right")
             \/ \* a forced track whose SRT file is not among them: next() on an empty glob
                /\ Raise("StopIteration")
                /\ UNCHANGED completed
       \/ \* tracks found, OCR leaves no non-empty SRT file
          /\ MkvPresent
          /\ files' = [files EXCEPT ![cur] = @ \ {"srt"}]
          /\ IF ~config.continue_on_error
             THEN Raise("SRTCreationError") /\ UNCHANGED completed
             ELSE \/ \* no forced track
                     /\ Goto("left_right")
                     /\ completed' = completed \cup {EXTRACT_SUBTITLES}
                  \/ \* a forced track: next() on an empty glob
                     /\ Raise("StopIteration")
                     /\ UNCHANGED completed

\* if config.skip_subtitles: return None
SubtitlesEnabled(skip) == ~skip

create_srt_from_mkv ==
    /\ pc = "srt"
    /\ IF /\ ShouldRun(EXTRACT_SUBTITLES, config.start_stage)
          /\ SubtitlesEnabled(config.skip_subtitles)
       THEN extract_subtitle_to_srt
       ELSE /\ Goto("left_right")
            /\ UNCHANGED <<files, invoked, completed>>
    /\ UNCHANGED <<nonPipeVars, config, sources, cur, gui, outdir, final, source_exists, fifos, procVars,
                   begun, dirlog, recovery, split>>

(***************************************************************************)
(* CREATE_LEFT_RIGHT_FILES: split_mvc_to_stereo (modules/video.py), the     *)
(* named pipes (modules/file.py) and the three processes.                   *)
(*   encoder: none -> launched -> attached (blocked opening the read end)   *)
(*            -> reading -> exit0 | exit1                                    *)
(*   decoder: none -> running -> exit0 | exit1                               *)
(***************************************************************************)
Alive == {"launched", "attached", "reading"}
Exited == {"exit0", "exit1"}

LogOf(e) == IF e = "left" THEN "leftlog" ELSE "rightlog"

\* create_left_right_files: the colour depth probe (its errors are caught), the guard
create_left_right_files ==
    /\ pc = "left_right"
    /\ IF ShouldRun(CREATE_LEFT_RIGHT_FILES, config.start_stage)
       THEN /\ invoked' = invoked \cup {CREATE_LEFT_RIGHT_FILES}
            /\ Goto("fifo_enter")
       ELSE /\ Goto("combine")
            /\ UNCHANGED invoked
    /\ UNCHANGED <<nonPipeVars, config, sources, cur, gui, fsVars, fifos, procVars,
                   completed, begun, dirlog, recovery, split>>

\* with temporary_fifo("left_fifo", "right_fifo") as (primary_fifo, secondary_fifo)
FifoNames == <<"left_fifo", "right_fifo">>

\* a variant without the unlink: whatever is at the path stays there
UnlinkSkipped(existing, fifo) == existing

\* fifo.unlink(missing_ok=True): nothing is at the path afterwards
UnlinkMissingOk(existing, fifo) == existing \ {fifo}

\* the loop of the try block: for each name the unlink, then os.mkfifo, which raises
\* FileExistsError when something is at the path; the paths on disk after the loop
\* and whether it ran to its end
RECURSIVE MakeFifos(_, _)
MakeFifos(existing, names) ==
    IF names = <<>>
    THEN [paths |-> existing, ok |-> TRUE]
    ELSE LET cleared == UnlinkMissingOk(existing, Head(names))
         IN  IF Head(names) \in cleared
             THEN [paths |-> cleared, ok |-> FALSE]
             ELSE MakeFifos(cleared \cup {Head(names)}, Tail(names))

\* temporary_fifo, up to the yield; an exception of os.mkfifo runs the finally clause
\* and leaves split_mvc_to_stereo
temporary_fifo_enter ==
    /\ pc = "fifo_enter"
    /\ LET made == MakeFifos(fifos, FifoNames)
       IN  IF made.ok
           THEN /\ fifos' = made.paths
                /\ split' = [split EXCEPT !.state = "running", !.stale = fifos]
                /\ Goto("launch_left")
           ELSE /\ fifos' = made.paths \ Fifos
                /\ split' = [split EXCEPT !.state = "raised", !.stale = fifos]
                /\ Raise("FileExistsError")
    /\ UNCHANGED <<nonPipeVars, config, sources, cur, gui, fsVars, procVars,
                   invoked, completed, begun, dirlog, recovery>>

\* a variant that opens the log but defers the Popen
run_ffmpeg_async_deferred(e, next) ==
    /\ files' = [files EXCEPT ![cur] = @ \cup {LogOf(e)}]
    /\ Goto(next)
    /\ UNCHANGED <<nonPipeVars, config, sources, cur, gui, outdir, final, source_exists, fifos, enc, dec,
                   decOpen, registered, orphans, histVars>>

\* run_ffmpeg_async: open the log, Popen; the exception of a failed launch leaves
\* the with block
run_ffmpeg_async(e, next) ==
    /\ files' = [files EXCEPT ![cur] = @ \cup {LogOf(e)}]
    /\ \/ /\ enc' = [enc EXCEPT ![e] = "launched"]
          /\ Goto(next)
       \/ /\ pc' = "fifo_exit"
          /\ exc' = "OSError"
          /\ UNCHANGED enc
    /\ UNCHANGED <<nonPipeVars, config, sources, cur, gui, outdir, final, source_exists, fifos, dec, decOpen,
                   registered, orphans, histVars>>

launch_left_encoder ==
    /\ pc = "launch_left"
    /\ run_ffmpeg_async("left", "launch_right")

launch_right_encoder ==
    /\ pc = "launch_right"
    /\ run_ffmpeg_async("right", "register")

RegisteredLeftOnly == {"left"}

\* atexit.register(cleanup_process, left_process); ... right_process
RegisteredHandles == Eyes

register_cleanup ==
    /\ pc = "register"
    /\ registered' = RegisteredHandles
    /\ Goto("run_frim")
    /\ UNCHANGED <<nonPipeVars, config, sources, cur, gui, fsVars, fifos, enc, dec, decOpen,
                   orphans, histVars>>

\* run_command(frim_command): Popen
run_frim_start ==
    /\ pc = "run_frim"
    /\ \/ /\ dec' = "running"
          /\ Goto("frim_wait")
       \/ /\ pc' = "fifo_exit"
          /\ exc' = "OSError"
          /\ UNCHANGED dec
    /\ UNCHANGED <<nonPipeVars, config, sources, cur, gui, fsVars, fifos, enc, decOpen,
                   registered, orphans, histVars>>

\* run_command(frim_command): process.wait() and the return code test
run_frim_end ==
    /\ pc = "frim_wait"
    /\ dec \in Exited
    /\ IF dec = "exit1"
       THEN pc' = "fifo_exit" /\ exc' = "CalledProcessError"
       ELSE Goto("wait_left")
    /\ UNCHANGED <<nonPipeVars, config, sources, cur, gui, fsVars, fifos, procVars, histVars>>

\* left_process.wait(): the return code is dropped
wait_left ==
    /\ pc = "wait_left"
    /\ enc["left"] \in Exited
    /\ Goto("wait_right")
    /\ UNCHANGED <<nonPipeVars, config, sources, cur, gui, fsVars, fifos, procVars, histVars>>

\* right_process.wait(): the return code is dropped
wait_right ==
    /\ pc = "wait_right"
    /\ enc["right"] \in Exited
    /\ Goto("fifo_exit")
    /\ UNCHANGED <<nonPipeVars, config, sources, cur, gui, fsVars, fifos, procVars, histVars>>

UnlinkFirstOnly(existing) == existing \ {"left_fifo"}

\* temporary_fifo, the finally clause: unlink every fifo
UnlinkAll(existing) == existing \ Fifos

\* leaving the with block and split_mvc_to_stereo's frame: the pipes are unlinked and
\* the process handles are dropped; an encoder still alive stays behind
temporary_fifo_exit ==
    /\ pc = "fifo_exit"
    /\ fifos' = UnlinkAll(fifos)
    /\ orphans' = orphans \cup
          {IF e \in registered THEN "registered" ELSE "unregistered" :
             e \in {x \in Eyes : enc[x] \in Alive}}
    /\ split' = [stale  |-> split.stale,
                 state  |-> IF exc = "None" THEN "returned" ELSE "raised",
                 failed |-> {e \in Eyes : enc[e] = "exit1"}
                            \cup (IF dec = "exit1" THEN {"decoder"} ELSE {})]
    /\ enc' = [e \in Eyes |-> "none"]
    /\ dec' = "none"
    /\ decOpen' = {}
    /\ registered' = {}
    /\ IF exc = "None" THEN Goto("split_post") ELSE Raise(exc)
    /\ UNCHANGED <<nonPipeVars, config, sources, cur, gui, fsVars,
                   invoked, completed, begun, dirlog, recovery>>

\* split_mvc_to_stereo after the with block: if not config.keep_files: unlink ...
split_post ==
    /\ pc = "split_post"
    /\ files' = [files EXCEPT ![cur] =
                    IF config.keep_files THEN @ ELSE @ \ {"leftlog", "rightlog", "mvc"}]
    /\ completed' = completed \cup {CREATE_LEFT_RIGHT_FILES}
    /\ Goto("combine")
    /\ UNCHANGED <<nonPipeVars, config, sources, cur, gui, outdir, final, source_exists, fifos, procVars,
                   invoked, begun, dirlog, recovery, split>>

(***************************************************************************)
(* The external processes of the split.                                     *)
(***************************************************************************)
\* ffmpeg opens its input: it blocks on the read end until a writer opens the pipe
EncoderAttach(e) ==
    /\ enc[e] = "launched"
    /\ enc' = [enc EXCEPT ![e] = "attached"]
    /\ UNCHANGED <<nonPipeVars, config, sources, cur, pc, exc, gui, fsVars, fifos, dec, decOpen,
                   registered, orphans, histVars>>

\* ffmpeg exits non-zero (bad arguments, encoder error, failure writing the movie)
EncoderFail(e) ==
    /\ enc[e] \in Alive
    /\ enc' = [enc EXCEPT ![e] = "exit1"]
    /\ UNCHANGED <<nonPipeVars, config, sources, cur, pc, exc, gui, fsVars, fifos, dec, decOpen,
                   registered, orphans, histVars>>

\* the decoder's open of a pipe for writing completes once its reader is attached
DecoderOpen(e) ==
    /\ dec = "running"
    /\ e \notin decOpen
    /\ enc[e] = "attached"
    /\ decOpen' = decOpen \cup {e}
    /\ enc' = [enc EXCEPT ![e] = "reading"]
    /\ files' = [files EXCEPT ![cur] = @ \cup {e}]
    /\ UNCHANGED <<nonPipeVars, config, sources, cur, pc, exc, gui, outdir, final, source_exists, fifos, dec,
                   registered, orphans, histVars>>

\* the decoder has written every frame to both pipes and exits 0
DecoderFinish ==
    /\ dec = "running"
    /\ decOpen = Eyes
    /\ \A e \in Eyes : enc[e] = "reading"
    /\ MvcPresent
    /\ dec' = "exit0"
    /\ UNCHANGED <<nonPipeVars, config, sources, cur, pc, exc, gui, fsVars, fifos, enc, decOpen,
                   registered, orphans, histVars>>

\* the decoder exits non-zero
DecoderFail ==
    /\ dec = "running"
    /\ dec' = "exit1"
    /\ UNCHANGED <<nonPipeVars, config, sources, cur, pc, exc, gui, fsVars, fifos, enc, decOpen,
                   registered, orphans, histVars>>

\* end of input on the pipe after the writer closed it: the encoder finishes its movie
EncoderFinish(e) ==
    /\ enc[e] = "reading"
    /\ dec \in Exited
    /\ enc' = [enc EXCEPT ![e] = "exit0"]
    /\ UNCHANGED <<nonPipeVars, config, sources, cur, pc, exc, gui, fsVars, fifos, dec, decOpen,
                   registered, orphans, histVars>>

(***************************************************************************)
(* COMBINE_TO_MV_HEVC, UPSCALE_VIDEO (modules/video.py), TRANSCODE_AUDIO    *)
(* (modules/audio.py), CREATE_FINAL_FILE (modules/container.py).            *)
(***************************************************************************)
\* if not config.keep_files: unlink the consumed inputs
Consume(fs, inputs) == IF config.keep_files THEN fs ELSE fs \ inputs

create_mv_hevc_file ==
    /\ pc = "combine"
    /\ IF ShouldRun(COMBINE_TO_MV_HEVC, config.start_stage)
       THEN /\ invoked' = invoked \cup {COMBINE_TO_MV_HEVC}
            /\ \/ \* spatial-media-kit-tool exits non-zero
                  /\ files' = [files EXCEPT ![cur] = @ \ {"mvhevc"}]
                  /\ Raise("CalledProcessError")
                  /\ UNCHANGED completed
               \/ \* "aborting!" in the output
                  /\ files' = [files EXCEPT ![cur] = @ \ {"mvhevc"}]
                  /\ Raise("RuntimeError")
                  /\ UNCHANGED completed
               \/ /\ {"left", "right"} \subseteq files[cur]
                  /\ files' = [files EXCEPT ![cur] =
                                  Consume(@ \cup {"mvhevc"}, {"left", "right"})]
                  /\ completed' = completed \cup {COMBINE_TO_MV_HEVC}
                  /\ Goto("upscale")
       ELSE /\ files' = [files EXCEPT ![cur] = Consume(@, {"left", "right"})]
            /\ Goto("upscale")
            /\ UNCHANGED <<invoked, completed>>
    /\ UNCHANGED <<nonPipeVars, config, sources, cur, gui, outdir, final, source_exists, fifos,
                   procVars, begun, dirlog, recovery, split>>

create_upscaled_file ==
    /\ pc = "upscale"
    /\ IF config.fx_upscale /\ ShouldRun(UPSCALE_VIDEO, config.start_stage)
       THEN /\ invoked' = invoked \cup {UPSCALE_VIDEO}
            /\ \/ /\ Raise("CalledProcessError")
                  /\ UNCHANGED <<files, completed>>
               \/ /\ "mvhevc" \in files[cur]
                  /\ files' = [files EXCEPT ![cur] =
                                  Consume(@ \cup {"upscaled"}, {"mvhevc"})]
                  /\ completed' = completed \cup {UPSCALE_VIDEO}
                  /\ Goto("transcode")
       ELSE /\ Goto("transcode")
            /\ UNCHANGED <<files, invoked, completed>>
    /\ UNCHANGED <<nonPipeVars, config, sources, cur, gui, outdir, final, source_exists, fifos,
                   procVars, begun, dirlog, recovery, split>>

create_transcoded_audio_file ==
    /\ pc = "transcode"
    /\ IF config.transcode_audio /\ ShouldRun(TRANSCODE_AUDIO, config.start_stage)
       THEN /\ invoked' = invoked \cup {TRANSCODE_AUDIO}
            /\ \/ /\ Raise("FfmpegError")
                  /\ UNCHANGED <<files, completed>>
               \/ /\ "audio" \in files[cur]
                  /\ files' = [files EXCEPT ![cur] = Consume(@ \cup {"aac"}, {"audio"})]
                  /\ completed' = completed \cup {TRANSCODE_AUDIO}
                  /\ Goto("mux")
       ELSE /\ Goto("mux")
            /\ UNCHANGED <<files, invoked, completed>>
    /\ UNCHANGED <<nonPipeVars, config, sources, cur, gui, outdir, final, source_exists, fifos,
                   procVars, begun, dirlog, recovery, split>>

create_muxed_file ==
    /\ pc = "mux"
    /\ IF ShouldRun(CREATE_FINAL_FILE, config.start_stage)
       THEN /\ invoked' = invoked \cup {CREATE_FINAL_FILE}
            /\ \/ \* get_audio_stream_data: ffmpeg.probe fails
                  /\ Raise("FfmpegError")
                  /\ UNCHANGED <<files, completed>>
               \/ \* MP4Box exits non-zero
                  /\ Raise("CalledProcessError")
                  /\ UNCHANGED <<files, completed>>
               \/ /\ {MvHevcPath, AudioPath} \subseteq files[cur]
                  /\ files' = [files EXCEPT ![cur] =
                                  Consume(@ \cup {"muxed"}, {MvHevcPath, AudioPath})]
                  /\ completed' = completed \cup {CREATE_FINAL_FILE}
                  /\ Goto("move")
       ELSE /\ files' = [files EXCEPT ![cur] = Consume(@, {MvHevcPath, AudioPath})]
            /\ Goto("move")
            /\ UNCHANGED <<invoked, completed>>
    /\ UNCHANGED <<nonPipeVars, config, sources, cur, gui, outdir, final, source_exists, fifos,
                   procVars, begun, dirlog, recovery, split>>

(***************************************************************************)
(* MOVE_FILES (modules/file.py) and the removal of the original.            *)
(***************************************************************************)
\* variant: the folder is removed whatever keep_files says
RemoveFolderAfterMoveAlways(keep) == TRUE

\* if not config.keep_files: remove_folder_if_exists(muxed_output_path.parent)
RemoveFolderAfterMove(keep) == ~keep

\* move_file_to_output_root_folder: Path.replace, then the removal of the folder
move_file_to_output_root_folder ==
    /\ pc = "move"
    /\ IF "muxed" \notin files[cur]
       THEN /\ Raise("OSError")
            /\ UNCHANGED <<outdir, files, final, invoked, completed, dirlog>>
       ELSE /\ final' = [final EXCEPT ![cur] = TRUE]
            /\ invoked' = invoked \cup {MOVE_FILES}
            /\ completed' = completed \cup {MOVE_FILES}
            /\ IF RemoveFolderAfterMove(config.keep_files)
               THEN /\ outdir' = [outdir EXCEPT ![cur] = FALSE]
                    /\ files' = [files EXCEPT ![cur] = {}]
                    /\ dirlog' = [dirlog EXCEPT !.removed = TRUE]
               ELSE /\ files' = [files EXCEPT ![cur] = @ \ {"muxed"}]
                    /\ UNCHANGED <<outdir, dirlog>>
            /\ Goto("remove_original")
    /\ UNCHANGED <<nonPipeVars, config, sources, cur, gui, source_exists, fifos, procVars,
                   begun, recovery, split>>

\* variant: the original is removed whenever the source is a path
RemovesOriginalAlways(remove_original, has_source_path) == has_source_path

\* if config.remove_original and config.source_path:
RemovesOriginal(remove_original, has_source_path) == remove_original /\ has_source_path

\* the end of process_each: remove_folder_if_exists or unlink on config.source_path (a
\* disc is given as source_str and has no source_path)
remove_original ==
    /\ pc = "remove_original"
    /\ source_exists' = [source_exists EXCEPT ![cur] =
                            IF RemovesOriginal(config.remove_original, kind # "disc")
                            THEN FALSE
                            ELSE @]
    /\ Goto("item_done")
    /\ UNCHANGED <<nonPipeVars, config, sources, cur, gui, outdir, files, final, fifos, procVars,
                   histVars>>

(***************************************************************************)
(* The folder loop of process() and ProcessingThread.run (gui/processing.py)*)
(***************************************************************************)
\* except (ValueError, FileExistsError, subprocess.CalledProcessError): continue
CaughtInLoop == {"ValueError", "FileExistsError", "CalledProcessError"}

\* the loop moves to the next source, or process() returns and run() emits
\* process_completed (finished_processing)
NextSource ==
    IF config.folder /\ cur < Len(sources)
    THEN /\ cur' = cur + 1
         /\ pc' = "process_each"
         /\ gui' = gui
    ELSE /\ cur' = cur
         /\ pc' = "idle"
         /\ gui' = "completed"

\* process_each returned
process_each_returns ==
    /\ pc = "item_done"
    /\ NextSource
    /\ exc' = exc
    /\ UNCHANGED <<nonPipeVars, config, sources, fsVars, fifos, procVars, histVars>>

\* an exception of process_each caught by the folder loop
process_continue ==
    /\ pc = "raised"
    /\ config.folder
    /\ exc \in CaughtInLoop
    /\ NextSource
    /\ exc' = "None"
    /\ UNCHANGED <<nonPipeVars, config, sources, fsVars, fifos, procVars, histVars>>

\* the except clauses of ProcessingThread.run; error_occurred is connected to
\* handle_processing_error; an exception of any other class ends the thread unhandled
SignalFor(e) ==
    CASE e = "MKVCreationError" -> "mkv_creation_error"
      [] e = "SRTCreationError" -> "srt_creation_error"
      [] e = "FileExistsError" -> "file_exists_error"
      [] e \in {"RuntimeError", "ValueError"} -> "failed"
      [] OTHER -> "crashed"

\* an exception leaving process(): ProcessingThread.run
thread_run_except ==
    /\ pc = "raised"
    /\ ~(config.folder /\ exc \in CaughtInLoop)
    /\ gui' = SignalFor(exc)
    /\ pc' = "idle"
    /\ exc' = "None"
    /\ UNCHANGED <<nonPipeVars, config, sources, cur, fsVars, fifos, procVars, histVars>>

(***************************************************************************)
(* The recovery handlers of the main window (gui/main_window.py).           *)
(***************************************************************************)
\* a variant that resumes at the failed stage
MkvResumeStageCreate == CREATE_MKV

\* config.start_stage = Stage.EXTRACT_MVC_AND_AUDIO
MkvResumeStage == EXTRACT_MVC_AND_AUDIO

SrtResumeStageExtract == EXTRACT_MVC_AND_AUDIO

\* config.start_stage = Stage.CREATE_LEFT_RIGHT_FILES
SrtResumeStage == CREATE_LEFT_RIGHT_FILES

\* the operator answers Yes: the option is set and start_processing(is_continuing=True)
\* starts the thread again
Continue(kindOfError, failedStage, newConfig) ==
    /\ config' = newConfig
    /\ recovery' = [kind |-> kindOfError, item |-> cur, failed |-> failedStage,
                    completed |-> completed \cup
                       (IF recovery.item = cur THEN recovery.completed ELSE {})]
    /\ gui' = "running"
    /\ pc' = "process"

\* the operator answers Abort: handle_processing_error
Abort ==
    /\ gui' = "failed"
    /\ UNCHANGED <<nonPipeVars, config, recovery, pc>>

handle_mkv_creation_error ==
    /\ gui = "mkv_creation_error"
    /\ \/ Continue("MKVCreationError", CREATE_MKV,
                   [config EXCEPT !.continue_on_error = TRUE,
                                  !.start_stage = MkvResumeStage])
       \/ Abort
    /\ UNCHANGED <<nonPipeVars, sources, cur, exc, fsVars, fifos, procVars,
                   invoked, completed, begun, dirlog, split>>

handle_file_exists_error ==
    /\ gui = "file_exists_error"
    /\ \/ Continue("FileExistsError", 0, [config EXCEPT !.overwrite = TRUE])
       \/ Abort
    /\ UNCHANGED <<nonPipeVars, sources, cur, exc, fsVars, fifos, procVars,
                   invoked, completed, begun, dirlog, split>>

handle_srt_creation_error ==
    /\ gui = "srt_creation_error"
    /\ \/ Continue("SRTCreationError", EXTRACT_SUBTITLES,
                   [config EXCEPT !.skip_subtitles = TRUE,
                                  !.start_stage = SrtResumeStage])
       \/ Abort
    /\ UNCHANGED <<nonPipeVars, sources, cur, exc, fsVars, fifos, procVars,
                   invoked, completed, begun, dirlog, split>>

(***************************************************************************)
(* Spinner, the commands that start one, and terminate_process              *)
(* (modules/command.py, modules/sub.py, gui/processing.py).                 *)
(***************************************************************************)
PROCESS_NAMES_TO_KILL ==
    <<"ffmpeg", "makemkvcon", "wine", "FRIMDecode64.exe", "spatial-media-kit-tool",
      "MP4Box", "fx-upscale">>

NamesToKill == {PROCESS_NAMES_TO_KILL[i] : i \in 1 .. Len(PROCESS_NAMES_TO_KILL)}

\* the functions that create a Spinner and start its thread
CommandKinds == {"run_command", "run_ffmpeg_print_errors", "extract_subtitle_to_srt"}

SpinnerIds == 1 .. MaxSpinners

NoSpinner == [pc |-> "none", stop_spinner_flag |-> FALSE]

Created == {k \in SpinnerIds : spinners[k].pc # "none"}

\* the processing thread is executing process()
WorkerRunning == worker.pc \in {"idle", "body", "stop", "join", "returned", "raised"}

\* the worker's statements do not touch these
spinKeep == <<kill_threads, killed, terminate_log, runs>>

\* spinner = Spinner(name); spinner_thread = threading.Thread(target=spinner.start);
\* spinner_thread.start(). Reached from the previous command's return, or from its
\* CalledProcessError caught by the folder loop of process()
command_begin(c) ==
    /\ \/ worker.pc \in {"idle", "returned"}
       \/ worker.pc = "raised" /\ worker.kind = "run_command"
    /\ Cardinality(Created) < MaxSpinners
    /\ LET k == Cardinality(Created) + 1
       IN /\ spinners' = [spinners EXCEPT ![k] = [pc |-> "start", stop_spinner_flag |-> FALSE]]
          /\ worker' = [pc |-> "body", spinner |-> k, kind |-> c, failed |-> FALSE]
    /\ UNCHANGED <<nonSpinVars, stop_all_spinners, spinKeep>>

\* extract_subtitle_to_srt has no try/finally around its body
HasFinally(c) == c # "extract_subtitle_to_srt"

\* the body between the thread's start and spinner.stop(): Popen and the wait for the
\* process, ffmpeg.run, pgsrip.rip; it completes or raises (failure to launch, non-zero
\* exit, ffmpeg.Error, SRTCreationError)
command_body ==
    /\ worker.pc = "body"
    /\ \E f \in BOOLEAN :
          worker' = [worker EXCEPT !.failed = f,
                                   !.pc = IF f /\ ~HasFinally(worker.kind)
                                          THEN "raised" ELSE "stop"]
    /\ UNCHANGED <<nonSpinVars, spinners, stop_all_spinners, spinKeep>>

\* Spinner.stop: self.stop_spinner_flag = True
Spinner_stop ==
    /\ worker.pc = "stop"
    /\ spinners' = [spinners EXCEPT ![worker.spinner].stop_spinner_flag = TRUE]
    /\ worker' = [worker EXCEPT !.pc = "join"]
    /\ UNCHANGED <<nonSpinVars, stop_all_spinners, spinKeep>>

\* spinner_thread.join(), then the return or the re-raise
spinner_thread_join ==
    /\ worker.pc = "join"
    /\ spinners[worker.spinner].pc = "exited"
    /\ worker' = [worker EXCEPT !.pc = IF worker.failed THEN "raised" ELSE "returned"]
    /\ UNCHANGED <<nonSpinVars, spinners, stop_all_spinners, spinKeep>>

\* Spinner.start, first statement: self.stop_spinner_flag = False
Spinner_start_flag(k) ==
    /\ spinners[k].pc = "start"
    /\ spinners' = [spinners EXCEPT ![k] = [pc |-> "reset_all", stop_spinner_flag |-> FALSE]]
    /\ UNCHANGED <<nonSpinVars, stop_all_spinners, worker, spinKeep>>

\* Spinner.start, second statement: Spinner._stop_all_spinners = False
Spinner_start_all(k) ==
    /\ spinners[k].pc = "reset_all"
    /\ stop_all_spinners' = FALSE
    /\ spinners' = [spinners EXCEPT ![k].pc = "loop"]
    /\ UNCHANGED <<nonSpinVars, worker, spinKeep>>

\* the while condition of Spinner.start
LoopContinues(flag, stopAll) == ~flag /\ ~stopAll

\* Spinner.start: the while loop is left (an iteration only writes the symbol and
\* sleeps, which changes nothing modelled here)
Spinner_loop_exit(k) ==
    /\ spinners[k].pc = "loop"
    /\ ~LoopContinues(spinners[k].stop_spinner_flag, stop_all_spinners)
    /\ spinners' = [spinners EXCEPT ![k].pc = "exited"]
    /\ UNCHANGED <<nonSpinVars, stop_all_spinners, worker, spinKeep>>

\* ProcessingThread.run: process() returned or raised; finally: Spinner.stop_all()
ProcessingThread_run_finally ==
    /\ worker.pc \in {"idle", "returned", "raised"}
    /\ stop_all_spinners' = TRUE
    /\ worker' = [worker EXCEPT !.pc = "finished"]
    /\ UNCHANGED <<nonSpinVars, spinners, spinKeep>>

\* stop_processing -> ProcessingThread.terminate: terminate_process() (Spinner.stop_all,
\* kill_processes_by_name starts one thread per name), then QThread.terminate()
ProcessingThread_terminate ==
    /\ WorkerRunning
    /\ ~terminate_log.requested
    /\ stop_all_spinners' = TRUE
    /\ kill_threads' = kill_threads \cup NamesToKill
    /\ terminate_log' = [requested |-> TRUE,
                         running |-> {k \in SpinnerIds : spinners[k].pc = "loop"}]
    /\ UNCHANGED <<nonSpinVars, spinners, worker, killed, runs>>

\* kill_process_by_name: subprocess.run(["pkill", "-f", process_name]); the threads are
\* independent of each other and of everything else, so they are run in the order in
\* which kill_processes_by_name started them
kill_process_by_name(i) ==
    LET n == PROCESS_NAMES_TO_KILL[i] IN
    /\ n \in kill_threads
    /\ \A j \in 1 .. (i - 1) : PROCESS_NAMES_TO_KILL[j] \notin kill_threads
    /\ kill_threads' = kill_threads \ {n}
    /\ killed' = killed \cup {n}
    /\ UNCHANGED <<nonSpinVars, spinners, stop_all_spinners, worker, terminate_log, runs>>

\* the effect of QThread.terminate(): the processing thread is stopped wherever it is
\* (until then it keeps running)
thread_terminated ==
    /\ terminate_log.requested
    /\ WorkerRunning
    /\ worker' = [worker EXCEPT !.pc = "killed"]
    /\ UNCHANGED <<nonSpinVars, spinners, stop_all_spinners, spinKeep>>

\* start_processing: self.processing_thread.start() after the thread has ended
start_processing ==
    /\ worker.pc \in {"finished", "killed"}
    /\ runs < MaxRuns
    /\ runs' = runs + 1
    /\ worker' = [worker EXCEPT !.pc = "idle"]
    /\ terminate_log' = [terminate_log EXCEPT !.requested = FALSE]
    /\ UNCHANGED <<nonSpinVars, spinners, stop_all_spinners, kill_threads, killed>>

\* no command has been run and no terminate requested
SpinnersAtRest ==
    /\ spinners = [k \in SpinnerIds |-> NoSpinner]
    /\ stop_all_spinners = FALSE
    /\ worker = [pc |-> "idle", spinner |-> 0, kind |-> "none", failed |-> FALSE]
    /\ kill_threads = {}
    /\ killed = {}
    /\ terminate_log = [requested |-> FALSE, running |-> {}]
    /\ runs = 1

(***************************************************************************)
(* detect_crop_parameters: the aggregation of the cropdetect samples         *)
(* (modules/video.py).                                                       *)
(***************************************************************************)
\* the values cropdetect reports; it prints negative sizes for an all-black frame
CropWidths == {-100, 100, 120}
CropHeights == {180, 200}
CropXs == {0, 10}
CropYs == {5, 15}

\* the text after "crop=": W:H:X:Y as a tuple of the four numbers printed
CropTokens == {<<w, h, x, y>> : w \in CropWidths, h \in CropHeights, x \in CropXs, y \in CropYs}

\* an output line: one without "crop=", or one with a token
CropLines == {<<>>} \cup CropTokens

None == <<>>

\* parse_crop_params: re.match(r"(\d+):(\d+):(\d+):(\d+)") matches digits only, so a
\* token with a minus sign is not parsed
parse_crop_params(crop_string) ==
    IF \A i \in 1 .. 4 : crop_string[i] >= 0 THEN crop_string ELSE None

\* the for loop over the output lines: the parsed tokens, in order
RECURSIVE CropParams(_)
CropParams(output) ==
    IF output = <<>> THEN <<>>
    ELSE LET output_line == Head(output)
             parsed_params == IF output_line = <<>> THEN None
                              ELSE parse_crop_params(output_line)
         IN (IF parsed_params # None THEN <<parsed_params>> ELSE <<>>)
            \o CropParams(Tail(output))

\* Python's max() and min() over a non-empty sequence
RECURSIVE MaxOf(_)
MaxOf(values) ==
    IF Len(values) = 1 THEN values[1]
    ELSE LET rest == MaxOf(Tail(values))
         IN IF rest > Head(values) THEN rest ELSE Head(values)

RECURSIVE MinOf(_)
MinOf(values) ==
    IF Len(values) = 1 THEN values[1]
    ELSE LET rest == MinOf(Tail(values))
         IN IF rest < Head(values) THEN rest ELSE Head(values)

\* param[i] for param in crop_params (the code's indices 0..3 are 1..4 here)
Column(crop_params, i) == [n \in 1 .. Len(crop_params) |-> crop_params[n][i]]

\* a variant that aggregates the smallest size at the largest offset
CompositeCropInner(crop_params) ==
    <<MinOf(Column(crop_params, 1)), MinOf(Column(crop_params, 2)),
      MaxOf(Column(crop_params, 3)), MaxOf(Column(crop_params, 4))>>

\* a variant that returns the first sample
CompositeCropFirst(crop_params) == crop_params[1]

\* f"{max_width}:{max_height}:{min_x}:{min_y}", as the tuple of the four numbers
CompositeCrop(crop_params) ==
    <<MaxOf(Column(crop_params, 1)), MaxOf(Column(crop_params, 2)),
      MinOf(Column(crop_params, 3)), MinOf(Column(crop_params, 4))>>

\* ffmpeg.run(...) prints one more line
cropdetect_prints(output_line) ==
    /\ crop_pc = "ffmpeg"
    /\ Len(crop_output) < MaxCropLines
    /\ crop_output' = Append(crop_output, output_line)
    /\ UNCHANGED <<nonCropVars, composite_crop, crop_pc>>

\* detect_crop_parameters after ffmpeg.run: "" without samples, else the composite
aggregate_crop ==
    /\ crop_pc = "ffmpeg"
    /\ composite_crop' = IF CropParams(crop_output) = <<>> THEN <<>>
                         ELSE CompositeCrop(CropParams(crop_output))
    /\ crop_pc' = "returned"
    /\ UNCHANGED <<nonCropVars, crop_output>>

\* ffmpeg.run has been started
CropAtRest == crop_output = <<>> /\ composite_crop = <<>> /\ crop_pc = "ffmpeg"

(***************************************************************************)
(* parse_makemkv_output and the choice of the main title (modules/disc.py).  *)
(***************************************************************************)
TitleIndices == {0, 1, 2}

\* the "h:m:s" of a TINFO:n,9,0 line, as the tuple of its three numbers
Durations == {<<0, 59, 59>>, <<1, 0, 0>>}

\* TINFO:n,... lines: the duration attribute (id 9) or any other attribute
TitleLines ==
    {[tag |-> "TINFO", title |-> i, has_duration |-> TRUE, duration |-> d, mvc |-> FALSE] :
        i \in TitleIndices, d \in Durations}
    \cup {[tag |-> "TINFO", title |-> i, has_duration |-> FALSE, duration |-> <<0, 0, 0>>,
           mvc |-> FALSE] : i \in TitleIndices}

\* SINFO:n,... lines: with or without one of the MVC terms
StreamLines ==
    {[tag |-> "SINFO", title |-> 0, has_duration |-> FALSE, duration |-> <<0, 0, 0>>,
      mvc |-> b] : b \in BOOLEAN}

\* allowed_chars of sanitize_filename: letters, digits, space, underscore, hyphen (the
\* letters and digits that occur in the names below)
allowed_chars == {"A", "B", "D", "a", "b", "d", "1", "3", " ", "_", "-"}

\* "".join(c if c in allowed_chars else "" for c in name)
sanitize_filename(name) ==
    LET Allowed(c) == c \in allowed_chars
    IN SelectSeq(name, Allowed)

\* DiscInfo.name, the class attribute: "Unknown"
DiscInfoName == <<"U", "n", "k", "n", "o", "w", "n">>

\* the titles of CINFO:2,0,"..." lines
DiscTitles == {<<"A", "b", "1">>, <<"B", "'", "d", "&", "!">>}

\* CINFO:2,0,"name" lines
NameLines == {[tag |-> "CINFO", name |-> n] : n \in DiscTitles}

\* a line of any other kind (MSG:..., DRV:..., TCOUNT:...)
OtherLines == {[tag |-> "MSG"]}

TranscriptLines == TitleLines \cup StreamLines \cup NameLines \cup OtherLines

\* TitleInfo(index=current_title): duration 0, has_mvc False
TitleInfo(index) == [index |-> index, duration |-> 0, has_mvc |-> FALSE]

\* h * 3600 + m * 60 + s
Seconds(hms) == hms[1] * 3600 + hms[2] * 60 + hms[3]

\* the position of title i in the dict (insertion order), 0 if it has no entry
PositionOf(titles, i) ==
    IF \E n \in 1 .. Len(titles) : titles[n].index = i
    THEN CHOOSE n \in 1 .. Len(titles) : titles[n].index = i
    ELSE 0

\* one iteration of the loop over the lines; current_title is <<>> for None
ParseLine(state, line) ==
    IF line.tag = "CINFO"
    THEN [state EXCEPT !.disc_name = sanitize_filename(line.name)]
    ELSE IF line.tag = "TINFO"
    THEN LET added == IF PositionOf(state.titles, line.title) = 0
                      THEN Append(state.titles, TitleInfo(line.title))
                      ELSE state.titles
             n == PositionOf(added, line.title)
         IN [disc_name |-> state.disc_name,
             current_title |-> <<line.title>>,
             titles |-> IF line.has_duration
                        THEN [added EXCEPT ![n].duration = Seconds(line.duration)]
                        ELSE added]
    ELSE IF line.tag = "SINFO" /\ state.current_title # <<>> /\ line.mvc
         THEN [state EXCEPT
                 !.titles[PositionOf(state.titles, state.current_title[1])].has_mvc = TRUE]
         ELSE state

RECURSIVE ParseLines(_)
ParseLines(output) ==
    IF output = <<>>
    THEN [disc_name |-> DiscInfoName, current_title |-> <<>>, titles |-> <<>>]
    ELSE ParseLine(ParseLines(SubSeq(output, 1, Len(output) - 1)), output[Len(output)])

\* parse_makemkv_output: list(titles.values())
parse_makemkv_output(output) == ParseLines(output).titles

\* parse_makemkv_output: disc_name, the other member of the returned pair
parse_disc_name(output) == ParseLines(output).disc_name

\* a variant that keeps every title
AllTitles(titles) == titles

\* [title for title in titles if title.has_mvc]
MvcTitles(titles) == SelectSeq(titles, LAMBDA title : title.has_mvc)

\* max(mvc_titles, key=lambda x: x.duration): the first of the largest
RECURSIVE Longest(_)
Longest(titles) ==
    IF Len(titles) = 1 THEN titles[1]
    ELSE LET best == Longest(SubSeq(titles, 1, Len(titles) - 1))
             last == titles[Len(titles)]
         IN IF last.duration > best.duration THEN last ELSE best

\* run_command(makemkvcon --robot info) reads one more line
makemkvcon_prints(line) ==
    /\ disc_info.state = "probing"
    /\ Len(makemkv_output) < MaxTranscript
    /\ makemkv_output' = Append(makemkv_output, line)
    /\ UNCHANGED <<nonDiscVars, disc_info>>

\* get_disc_and_mvc_video_info after run_command, for a disc or an image
select_main_title ==
    /\ disc_info.state = "probing"
    /\ LET mvc_titles == MvcTitles(parse_makemkv_output(makemkv_output))
       IN disc_info' =
            IF mvc_titles = <<>>
            THEN [disc_info EXCEPT !.state = "ValueError"]
            ELSE [state |-> "returned", main_title_number |-> Longest(mvc_titles).index,
                  name |-> parse_disc_name(makemkv_output)]
    /\ UNCHANGED <<nonDiscVars, makemkv_output>>

\* DiscInfo(): main_title_number 0; makemkvcon has been started
DiscAtRest ==
    /\ makemkv_output = <<>>
    /\ disc_info = [state |-> "probing", main_title_number |-> 0, name |-> <<>>]

\* the transcripts makemkvcon prints for the sources of the pipeline: no title, a
\* title without an MVC stream, a title with one
ProbeTranscripts ==
    {<<>>,
     <<[tag |-> "TINFO", title |-> 0, has_duration |-> TRUE, duration |-> <<1, 0, 0>>,
        mvc |-> FALSE],
       [tag |-> "SINFO", title |-> 0, has_duration |-> FALSE, duration |-> <<0, 0, 0>>,
        mvc |-> FALSE]>>,
     <<[tag |-> "TINFO", title |-> 0, has_duration |-> TRUE, duration |-> <<1, 0, 0>>,
        mvc |-> FALSE],
       [tag |-> "SINFO", title |-> 0, has_duration |-> FALSE, duration |-> <<0, 0, 0>>,
        mvc |-> TRUE]>>}

\* Path(source).stem of an MTS source of the pipeline
MtsStem == <<"A", "b", "1">>

\* process_each: print, then get_disc_and_mvc_video_info. An MTS source is probed with
\* ffmpeg.probe; any other source with makemkvcon (run_command), whose transcript is
\* parsed and searched for the longest MVC title
get_disc_and_mvc_video_info ==
    /\ pc = "process_each"
    /\ begun' = begun \cup {cur}
    /\ invoked' = {}
    /\ completed' = {}
    /\ dirlog' = NoDirLog
    /\ split' = NoSplit
    /\ \/ /\ kind = "mts"
          /\ \/ /\ Goto("prepare")
                /\ disc_info' = [state |-> "returned", main_title_number |-> 0,
                                 name |-> MtsStem]
             \/ /\ Raise("FfmpegError")
                /\ disc_info' = [state |-> "probing", main_title_number |-> 0, name |-> <<>>]
          /\ UNCHANGED makemkv_output
       \/ /\ kind # "mts"
          /\ Raise("CalledProcessError")
          /\ disc_info' = [state |-> "probing", main_title_number |-> 0, name |-> <<>>]
          /\ UNCHANGED makemkv_output
       \/ /\ kind # "mts"
          /\ \E output \in ProbeTranscripts :
                LET mvc_titles == MvcTitles(parse_makemkv_output(output))
                IN /\ makemkv_output' = output
                   /\ IF mvc_titles = <<>>
                      THEN /\ Raise("ValueError")
                           /\ disc_info' = [state |-> "ValueError", main_title_number |-> 0,
                                            name |-> <<>>]
                      ELSE /\ Goto("prepare")
                           /\ disc_info' = [state |-> "returned",
                                            main_title_number |-> Longest(mvc_titles).index,
                                            name |-> parse_disc_name(output)]
    /\ UNCHANGED <<spinVars, cropVars, textVars, config, sources, cur, gui, fsVars, fifos,
                   procVars, recovery>>

(***************************************************************************)
(* The output-exists check (modules/file.py).  A name is a sequence of      *)
(* one-character strings.                                                   *)
(***************************************************************************)
\* what str.lower() does to one character of the names below
LowerChar(c) ==
    CASE c = "M" -> "m"
      [] c = "A" -> "a"
      [] c = "V" -> "v"
      [] c = "P" -> "p"
      [] OTHER -> c

\* str.lower()
lower(name) == [i \in 1 .. Len(name) |-> LowerChar(name[i])]

\* str.replace(old, new) for one-character old and new
replace(name, old, new) == [i \in 1 .. Len(name) |-> IF name[i] = old THEN new ELSE name[i]]

\* variant: the separators are unified, the case is kept
normalize_name_cased(name) == replace(replace(name, "_", " "), " ", "_")

\* name.lower().replace("_", " ").replace(" ", "_")
normalize_name(name) == replace(replace(lower(name), "_", " "), " ", "_")

\* the file names of the example, and three-character names of every case and separator
MovieOnDisk == <<"M", "y", "_", "M", "o", "v", "i", "e", "_", "A", "V", "P", ".", "m", "o", "v">>

MovieAsked == <<"m", "y", " ", "m", "o", "v", "i", "e", "_", "A", "V", "P", ".", "m", "o", "v">>

ShortNames == {<<a, b, c>> : a \in {"M", "m"}, b \in {"_", " ", "-"}, c \in {"V", "v", "o"}}

FileNames == ShortNames \cup {<<"M", "V">>, MovieOnDisk, MovieAsked}

\* the listings of target_path.parent: no entry, one entry, two entries
Listings == {{}} \cup {{a, b} : a \in FileNames, b \in FileNames}

\* file_exists_normalized(target_path)
file_exists_normalized ==
    /\ exists_result = "unset"
    /\ exists_result' =
          IF \E item \in dir_entries : normalize_name(item) = normalize_name(target_name)
          THEN "True"
          ELSE "False"
    /\ UNCHANGED <<nonExistsVars, target_name, dir_entries>>

\* file_exists_normalized has not been called
ExistsAtRest == target_name = <<>> /\ dir_entries = {} /\ exists_result = "unset"

(***************************************************************************)
(* The display name of a source (modules/disc.py).                          *)
(***************************************************************************)
\* the strings a disc title or a file stem is drawn from
RawNames ==
    {<<"A", "b", "1">>,
     <<"A", " ", "_", "-", "d">>,
     <<"A", ":", "b">>,
     <<"(", "3", "D", ")">>,
     <<"B", "'", "d", "&", "!">>}

\* the name of a source: its kind, the stem of its path, the CINFO:2,0 line of the
\* transcript makemkvcon prints for it (absent for an MTS source, which is not
\* probed with makemkvcon)
ProbeSources ==
    {src \in [kind : SourceKinds, stem : RawNames, has_cinfo : BOOLEAN, cinfo : RawNames] :
        src.kind = "mts" => ~src.has_cinfo}

\* parse_makemkv_output's disc_name
disc_name(src) == IF src.has_cinfo THEN sanitize_filename(src.cinfo) ELSE DiscInfoName

\* get_disc_and_mvc_video_info: DiscInfo(name=Path(source).stem) for an MTS source,
\* DiscInfo(name=disc_name) otherwise; ValueError when no title carries MVC
probe_display_name ==
    /\ probe_name.state = "probing"
    /\ \/ probe_name' = [state |-> "returned",
                         name |-> IF probe_source.kind = "mts"
                                  THEN probe_source.stem
                                  ELSE disc_name(probe_source)]
       \/ /\ probe_source.kind # "mts"
          /\ probe_name' = [state |-> "ValueError", name |-> <<>>]
    /\ UNCHANGED <<nonNameVars, probe_source>>

\* get_disc_and_mvc_video_info has not been called
NameAtRest ==
    /\ probe_source = [kind |-> "disc", stem |-> <<>>, has_cinfo |-> FALSE, cinfo |-> <<>>]
    /\ probe_name = [state |-> "probing", name |-> <<>>]

(***************************************************************************)
(* The error report of a rip (modules/disc.py).                             *)
(***************************************************************************)
\* a line is a sequence of words, a known string a sequence of words; config.py
MKV_ERROR_CODES ==
    {<<"corrupt", "or", "invalid">>,
     <<"video", "frame", "timecode", "differs">>,
     <<"secondary", "stream", "video", "frame", "timecode", "differs">>}

MKV_ERROR_FILTERS ==
    {<<"which", "is", "less", "than", "minimum", "title", "length">>,
     <<"Debug", "logging">>,
     <<"AnyDVD">>,
     <<"MakeMKV">>,
     <<"Do", "you", "want", "to", "continue", "anyway">>,
     <<"AACS", "directory", "not", "present">>,
     <<"Evaluation", "version">>,
     <<"Using", "direct", "disc", "access", "mode">>,
     <<"Program", "reads", "data", "faster", "than", "it", "can", "write", "to", "disk">>}

\* string in line: the words of `string` occur in `line`, adjacent and in order
Contains(line, string) ==
    \E i \in 0 .. (Len(line) - Len(string)) :
       \A j \in 1 .. Len(string) : line[i + j] = string[j]

MaxRipLines == 3

\* lines makemkvcon prints while ripping: plain, noise, fatal, fatal and noise
RipLines ==
    {<<"Copy", "complete">>,
     <<"MakeMKV", "v1", "started">>,
     <<"Debug", "logging", "enabled">>,
     <<"file", "is", "corrupt", "or", "invalid">>,
     <<"secondary", "stream", "video", "frame", "timecode", "differs">>,
     <<"MakeMKV", "video", "frame", "timecode", "differs">>}

\* filter_lines_from_output: the lines holding none of the filter strings, each
\* followed by a newline
filter_lines_from_output(output, filter_strings) ==
    LET Kept(line) == ~\E filter_string \in filter_strings : Contains(line, filter_string)
    IN SelectSeq(output, Kept)

\* variant: continue_on_error is not consulted
RipAcceptedStrict(continue_on_error, output) ==
    \A error \in MKV_ERROR_CODES : ~\E i \in 1 .. Len(output) : Contains(output[i], error)

\* if config.continue_on_error or all(error not in mkv_output for error in
\* config.MKV_ERROR_CODES): return
RipAccepted(continue_on_error, output) ==
    \/ continue_on_error
    \/ \A error \in MKV_ERROR_CODES : ~\E i \in 1 .. Len(output) : Contains(output[i], error)

\* makemkvcon prints one more line (run_command collects them)
makemkvcon_rip_prints(line) ==
    /\ rip_result.state = "ripping"
    /\ Len(mkv_output) < MaxRipLines
    /\ mkv_output' = Append(mkv_output, line)
    /\ UNCHANGED <<nonRipVars, rip_continue, rip_result>>

\* rip_disc_to_mkv after run_command has returned
rip_output_check ==
    /\ rip_result.state = "ripping"
    /\ rip_result' =
          IF RipAccepted(rip_continue, mkv_output)
          THEN [state |-> "returned", text |-> <<>>]
          ELSE [state |-> "MKVCreationError",
                text |-> filter_lines_from_output(mkv_output, MKV_ERROR_FILTERS)]
    /\ UNCHANGED <<nonRipVars, mkv_output, rip_continue>>

\* rip_disc_to_mkv has not been called
RipAtRest ==
    /\ mkv_output = <<>>
    /\ rip_continue = FALSE
    /\ rip_result = [state |-> "ripping", text |-> <<>>]

(***************************************************************************)
(* The command lines of the split (modules/video.py).                       *)
(***************************************************************************)
\* variant: the probed value is always used
ProbedOnly(override, probed) == probed

\* config.resolution or disc_info.resolution: the override unless it is empty
OverrideOr(override, probed) == IF override # "" THEN override ELSE probed

\* generate_ffmpeg_wrapper_command: the input pipe, its size and rate, the output rate
generate_ffmpeg_wrapper_command(input_fifo, output_path, input) ==
    [i |-> input_fifo,
     s |-> OverrideOr(input.resolution, input.probed_resolution),
     r |-> OverrideOr(input.frame_rate, input.probed_frame_rate),
     output |-> output_path,
     output_r |-> OverrideOr(input.frame_rate, input.probed_frame_rate)]

\* variant: the pipes are passed in the same order whatever swap_eyes says
FrimOutputsUnswapped(swap_eyes, primary_fifo, secondary_fifo) ==
    <<primary_fifo, secondary_fifo>>

\* frim_command += [secondary_fifo, primary_fifo] if config.swap_eyes, else
\* [primary_fifo, secondary_fifo]
FrimOutputs(swap_eyes, primary_fifo, secondary_fifo) ==
    IF swap_eyes
    THEN <<secondary_fifo, primary_fifo>>
    ELSE <<primary_fifo, secondary_fifo>>

\* the overrides the operator may type, the values the prober may return
SplitInputs ==
    [resolution : {"", "1280x720"}, frame_rate : {"", "25"},
     probed_resolution : {"1920x1080", "3840x2160"},
     probed_frame_rate : {"23.976", "59.94"},
     swap_eyes : BOOLEAN, kind : SourceKinds]

NoCommands == [state |-> "none", left |-> <<>>, right |-> <<>>, frim |-> <<>>]

\* split_mvc_to_stereo inside the with block, up to the launch: temporary_fifo yields
\* the paths of "left_fifo" and "right_fifo", in this order
build_split_commands ==
    /\ commands.state = "none"
    /\ LET primary_fifo == "left_fifo"
           secondary_fifo == "right_fifo"
       IN commands' =
            [state |-> "built",
             left |-> generate_ffmpeg_wrapper_command(primary_fifo, "left", split_input),
             right |-> generate_ffmpeg_wrapper_command(secondary_fifo, "right", split_input),
             frim |-> FrimOutputs(split_input.swap_eyes, primary_fifo, secondary_fifo)]
    /\ UNCHANGED <<nonCmdVars, split_input>>

\* split_mvc_to_stereo has not been called
CmdAtRest ==
    /\ split_input = [resolution |-> "", frame_rate |-> "",
                      probed_resolution |-> "1920x1080", probed_frame_rate |-> "23.976",
                      swap_eyes |-> FALSE, kind |-> "disc"]
    /\ commands = NoCommands

TextAtRest == ExistsAtRest /\ NameAtRest /\ RipAtRest /\ CmdAtRest

(***************************************************************************)
(* Initial states: the operator has set the options and pressed Start.      *)
(***************************************************************************)
Flags == {"overwrite", "keep_files", "skip_subtitles", "continue_on_error",
          "fx_upscale", "transcode_audio", "crop_black_bars", "remove_original"}

\* the Config with the flags of `on` set and every other flag at its default
ConfigWith(start, on, folder) ==
    [start_stage |-> start, folder |-> folder,
     overwrite |-> "overwrite" \in on, keep_files |-> "keep_files" \in on,
     skip_subtitles |-> "skip_subtitles" \in on,
     continue_on_error |-> "continue_on_error" \in on,
     fx_upscale |-> "fx_upscale" \in on, transcode_audio |-> "transcode_audio" \in on,
     crop_black_bars |-> "crop_black_bars" \in on,
     remove_original |-> "remove_original" \in on]

\* what an earlier run left: nothing, its intermediates, its final file, or both; or
\* what a run whose extraction failed left (ffmpeg had opened the bitstream, its first
\* output, and not the audio file)
Fresh == [dir |-> FALSE, files |-> {}, final |-> FALSE]

Priors == {Fresh,
           [dir |-> TRUE, files |-> Artifacts \ {"muxed"}, final |-> FALSE],
           [dir |-> TRUE, files |-> {"mkv", "mvc"}, final |-> FALSE],
           [dir |-> FALSE, files |-> {}, final |-> TRUE],
           [dir |-> TRUE, files |-> Artifacts \ {"muxed"}, final |-> TRUE]}

InitWith(configs, sourceLists, priors, stale) ==
    /\ config \in configs
    /\ sources \in sourceLists
    /\ IF config.folder
       THEN \A i \in Items : sources[i] \in FolderKinds
       ELSE Len(sources) = 1
    /\ \E prior \in [Items -> priors] :
          /\ outdir = [i \in Items |-> prior[i].dir]
          /\ files = [i \in Items |-> prior[i].files]
          /\ final = [i \in Items |-> prior[i].final]
    /\ source_exists = [i \in Items |-> sources[i] # "disc"]
    /\ cur = 1
    /\ pc = "process"
    /\ exc = "None"
    /\ gui = "running"
    /\ fifos \in stale
    /\ enc = [e \in Eyes |-> "none"]
    /\ dec = "none"
    /\ decOpen = {}
    /\ registered = {}
    /\ orphans = {}
    /\ invoked = {}
    /\ completed = {}
    /\ begun = {}
    /\ dirlog = NoDirLog
    /\ recovery = NoRecovery
    /\ split = NoSplit

SourceLists(kinds, n) == UNION {[1 .. m -> kinds] : m \in 1 .. n}

\* the option sets explored: the defaults, each option alone, and three combinations
FlagSets ==
    {on \in SUBSET Flags : Cardinality(on) <= 1}
    \cup {{"overwrite", "keep_files"},
          {"skip_subtitles", "fx_upscale", "transcode_audio"},
          Flags}

\* one source (file, image or disc), every start stage
SingleConfigs == {ConfigWith(s, on, FALSE) : s \in Stage, on \in FlagSets}

\* a folder of sources, processed from the first stage
FolderConfigs == {ConfigWith(FirstStage, on, TRUE) : on \in {{}, {"overwrite", "keep_files"}}}

FolderLists ==
    SourceLists({"image"}, MaxSources) \cup {<<"mts", "image">>, <<"image", "mkv">>}

Init ==
    /\ \/ InitWith(SingleConfigs, SourceLists(SourceKinds, 1), Priors, {{}, Fifos})
       \/ InitWith(FolderConfigs, FolderLists, {Fresh}, {{}})
    /\ SpinnersAtRest
    /\ CropAtRest
    /\ DiscAtRest
    /\ TextAtRest

Pipeline ==
    \/ process
    \/ get_disc_and_mvc_video_info
    \/ prepare_output_folder_for_source
    \/ output_exists_check
    \/ create_mkv_file
    \/ detect_crop_parameters
    \/ create_mvc_and_audio
    \/ create_srt_from_mkv
    \/ create_left_right_files
    \/ create_mv_hevc_file
    \/ create_upscaled_file
    \/ create_transcoded_audio_file
    \/ create_muxed_file
    \/ move_file_to_output_root_folder
    \/ remove_original
    \/ process_each_returns
    \/ process_continue
    \/ thread_run_except

Splitter ==
    \/ temporary_fifo_enter
    \/ launch_left_encoder
    \/ launch_right_encoder
    \/ register_cleanup
    \/ run_frim_start
    \/ run_frim_end
    \/ wait_left
    \/ wait_right
    \/ temporary_fifo_exit
    \/ split_post
    \/ \E e \in Eyes : EncoderAttach(e)
    \/ \E e \in Eyes : EncoderFail(e)
    \/ \E e \in Eyes : DecoderOpen(e)
    \/ \E e \in Eyes : EncoderFinish(e)
    \/ DecoderFinish
    \/ DecoderFail

Operator ==
    \/ handle_mkv_creation_error
    \/ handle_file_exists_error
    \/ handle_srt_creation_error

Next == Pipeline \/ Splitter \/ Operator

Spec == Init /\ [][Next]_vars

(***************************************************************************)
(* The pipeline under fair scheduling: the thread of process_each keeps      *)
(* taking its steps, and a process that can open its pipe, or read to the    *)
(* end of its input, does so.  That a process fails is never required.       *)
(***************************************************************************)
ThreadSteps ==
    \/ Pipeline
    \/ temporary_fifo_enter
    \/ launch_left_encoder
    \/ launch_right_encoder
    \/ register_cleanup
    \/ run_frim_start
    \/ run_frim_end
    \/ wait_left
    \/ wait_right
    \/ temporary_fifo_exit
    \/ split_post

FairSpec ==
    /\ Init
    /\ [][Next]_vars
    /\ WF_vars(ThreadSteps)
    /\ \A e \in Eyes : WF_vars(EncoderAttach(e))
    /\ \A e \in Eyes : WF_vars(DecoderOpen(e))
    /\ \A e \in Eyes : WF_vars(EncoderFinish(e))
    /\ WF_vars(DecoderFinish)

(***************************************************************************)
(* The progress reporter on its own: one processing thread running commands, *)
(* their spinner threads, and the operator stopping and restarting it.       *)
(***************************************************************************)
\* the pipeline state plays no part: one source, default options
SpinnerInit ==
    /\ InitWith({ConfigWith(FirstStage, {}, FALSE)}, {<<"mkv">>}, {Fresh}, {{}})
    /\ SpinnersAtRest
    /\ CropAtRest
    /\ DiscAtRest
    /\ TextAtRest

SpinnerNext ==
    \/ \E c \in CommandKinds : command_begin(c)
    \/ command_body
    \/ Spinner_stop
    \/ spinner_thread_join
    \/ \E k \in SpinnerIds : Spinner_start_flag(k)
    \/ \E k \in SpinnerIds : Spinner_start_all(k)
    \/ \E k \in SpinnerIds : Spinner_loop_exit(k)
    \/ ProcessingThread_run_finally
    \/ ProcessingThread_terminate
    \/ \E i \in 1 .. Len(PROCESS_NAMES_TO_KILL) : kill_process_by_name(i)
    \/ thread_terminated
    \/ start_processing

SpinnerSpec == SpinnerInit /\ [][SpinnerNext]_vars

(***************************************************************************)
(* Crop detection on its own: cropdetect prints lines, then the aggregation. *)
(***************************************************************************)
PipelineAtRest == InitWith({ConfigWith(FirstStage, {}, FALSE)}, {<<"mkv">>}, {Fresh}, {{}})

CropInit == PipelineAtRest /\ SpinnersAtRest /\ CropAtRest /\ DiscAtRest /\ TextAtRest

CropNext ==
    \/ \E output_line \in CropLines : cropdetect_prints(output_line)
    \/ aggregate_crop

CropSpec == CropInit /\ [][CropNext]_vars

(***************************************************************************)
(* The disc prober on its own: makemkvcon prints lines, then the choice.     *)
(***************************************************************************)
DiscInit == PipelineAtRest /\ SpinnersAtRest /\ CropAtRest /\ DiscAtRest /\ TextAtRest

DiscNext ==
    \/ \E line \in TranscriptLines : makemkvcon_prints(line)
    \/ select_main_title

DiscSpec == DiscInit /\ [][DiscNext]_vars

(***************************************************************************)
(* The output-exists check on its own: a directory listing and a target.    *)
(***************************************************************************)
ExistsInit ==
    /\ PipelineAtRest /\ SpinnersAtRest /\ CropAtRest /\ DiscAtRest
    /\ NameAtRest /\ RipAtRest /\ CmdAtRest
    /\ target_name \in FileNames
    /\ dir_entries \in Listings
    /\ exists_result = "unset"

ExistsNext == file_exists_normalized

ExistsSpec == ExistsInit /\ [][ExistsNext]_vars

(***************************************************************************)
(* The rip's error report on its own: makemkvcon prints lines, then the     *)
(* test of rip_disc_to_mkv.                                                 *)
(***************************************************************************)
RipInit ==
    /\ PipelineAtRest /\ SpinnersAtRest /\ CropAtRest /\ DiscAtRest
    /\ ExistsAtRest /\ NameAtRest /\ CmdAtRest
    /\ mkv_output = <<>>
    /\ rip_continue \in BOOLEAN
    /\ rip_result = [state |-> "ripping", text |-> <<>>]

RipNext ==
    \/ \E line \in RipLines : makemkvcon_rip_prints(line)
    \/ rip_output_check

RipSpec == RipInit /\ [][RipNext]_vars

(***************************************************************************)
(* The display name on its own: a source, then the prober.                  *)
(***************************************************************************)
NameInit ==
    /\ PipelineAtRest /\ SpinnersAtRest /\ CropAtRest /\ DiscAtRest
    /\ ExistsAtRest /\ RipAtRest /\ CmdAtRest
    /\ probe_source \in ProbeSources
    /\ probe_name = [state |-> "probing", name |-> <<>>]

NameNext == probe_display_name

NameSpec == NameInit /\ [][NameNext]_vars

(***************************************************************************)
(* The command lines of the split on their own.                             *)
(***************************************************************************)
CmdInit ==
    /\ PipelineAtRest /\ SpinnersAtRest /\ CropAtRest /\ DiscAtRest
    /\ ExistsAtRest /\ NameAtRest /\ RipAtRest
    /\ split_input \in SplitInputs
    /\ commands = NoCommands

CmdNext == build_split_commands

CmdSpec == CmdInit /\ [][CmdNext]_vars

(***************************************************************************)
(* Properties.                                                              *)
(***************************************************************************)
\* the positions of process_each, in program order
Order == <<"create_mkv", "crop", "extract", "srt", "left_right", "fifo_enter",
           "launch_left", "launch_right", "register", "run_frim", "frim_wait",
           "wait_left", "wait_right", "fifo_exit", "split_post", "combine", "upscale",
           "transcode", "mux", "move", "remove_original", "item_done">>

Pos(p) == CHOOSE i \in 1 .. Len(Order) : Order[i] = p

\* the position of the step guarded by a stage
StepPc(s) ==
    CASE s = CREATE_MKV -> "create_mkv"
      [] s = EXTRACT_MVC_AND_AUDIO -> "extract"
      [] s = EXTRACT_SUBTITLES -> "srt"
      [] s = CREATE_LEFT_RIGHT_FILES -> "left_right"
      [] s = COMBINE_TO_MV_HEVC -> "combine"
      [] s = UPSCALE_VIDEO -> "upscale"
      [] s = TRANSCODE_AUDIO -> "transcode"
      [] s = CREATE_FINAL_FILE -> "mux"

\* process_each has passed the step of stage s
Passed(s) == pc \in {Order[i] : i \in (Pos(StepPc(s)) + 1) .. Len(Order)}

GuardedStages == CREATE_MKV .. CREATE_FINAL_FILE

\* the step is not switched off by an option or by the kind of source
StageEnabled(s) ==
    CASE s = CREATE_MKV -> kind \in {"disc", "image"}
      [] s = EXTRACT_SUBTITLES -> ~config.skip_subtitles
      [] s = UPSCALE_VIDEO -> config.fx_upscale
      [] s = TRANSCODE_AUDIO -> config.transcode_audio
      [] OTHER -> TRUE

\* the thread is inside process_each for source cur
InProcessEach == gui = "running" /\ pc \notin {"process", "process_each", "idle"}

\* C1: in process_each a guarded step's tool is invoked only if its stage is at or
\* after the start stage and the step is enabled, and once process_each has passed
\* an enabled step whose stage is at or after the start stage its tool was invoked.
C1_StageGuard ==
    InProcessEach =>
        /\ \A s \in invoked \cap GuardedStages :
              s >= config.start_stage /\ StageEnabled(s)
        /\ \A s \in GuardedStages :
              (Passed(s) /\ StageEnabled(s) /\ s >= config.start_stage) => s \in invoked

C1_Witness ==
    /\ pc = "item_done"
    /\ config.start_stage = COMBINE_TO_MV_HEVC
    /\ config.fx_upscale
    /\ invoked = {COMBINE_TO_MV_HEVC, UPSCALE_VIDEO, CREATE_FINAL_FILE, MOVE_FILES}

\* C2: whenever the decoder process has been launched, both encoder processes have
\* been launched and their handles registered with atexit.
C2_EncodersBeforeDecoder ==
    dec # "none" => \A e \in Eyes : enc[e] # "none" /\ e \in registered

C2_Witness == pc = "frim_wait" /\ dec = "running"

\* C3 as claimed: at the step that starts the decoder, both encoders are attached to
\* (blocked on) the read end of their pipe.
C3_AttachedAtDecoderStart ==
    [][(dec = "none" /\ dec' = "running") => \A e \in Eyes : enc[e] = "attached"]_vars

\* C3 as amended: at the step that starts the decoder both encoders have been launched
\* (they may not have attached yet, or may have exited), and the decoder's open of a
\* pipe completes only when that pipe's encoder is attached.
C3_LaunchedAtDecoderStart ==
    [][/\ (dec = "none" /\ dec' = "running") => \A e \in Eyes : enc[e] \in Alive \cup Exited
       /\ \A e \in decOpen' \ decOpen : enc[e] = "attached"]_vars

C3_Witness ==
    /\ dec = "running"
    /\ enc["left"] = "launched"
    /\ enc["right"] = "reading"
    /\ decOpen = {"right"}

\* C4 as claimed: if a process of the split exited non-zero, split_mvc_to_stereo
\* raised (and process_each does not go on to the combine step).
C4_SplitFailsOnNonZeroExit ==
    split.failed # {} => split.state = "raised" /\ pc \notin {"split_post", "combine"}

\* C5: once split_mvc_to_stereo has returned or raised, no named pipe path exists.
C5_PipesRemoved ==
    split.state \in {"returned", "raised"} => fifos = {}

C5_Witness ==
    /\ split.state = "raised"
    /\ split.failed = {"left", "decoder"}
    /\ pc = "raised"
    /\ fifos = {}

\* C6 as claimed: the pipes are deleted only when the three processes have exited, and
\* when split_mvc_to_stereo has returned or raised no encoder it launched is running.
C6_NoEncoderOutlivesSplit ==
    /\ pc = "fifo_exit" => dec # "running" /\ \A e \in Eyes : enc[e] \notin Alive
    /\ split.state \in {"returned", "raised"} => orphans = {}

\* C7 as claimed: a process_each whose start stage is not the first neither purges nor
\* deletes the per-item output directory.
C7_ResumeNeverDeletesDir ==
    (InProcessEach /\ config.start_stage # FirstStage) =>
        ~dirlog.purged /\ ~dirlog.removed

\* C7 as amended: the directory is purged only by a process_each whose start stage is
\* the first; a process_each with a later start stage keeps the directory until the
\* final file has been relocated, and deletes it then iff keep_files is not set.
C7_ResumeKeepsDirUntilMove ==
    InProcessEach =>
        /\ dirlog.purged => config.start_stage = FirstStage
        /\ dirlog.removed =>
              /\ ~config.keep_files
              /\ MOVE_FILES \in completed
              /\ pc \in {"remove_original", "item_done"}
        /\ (pc \in {"remove_original", "item_done"} /\ ~config.keep_files)
              => dirlog.removed
        /\ (pc \notin {"prepare", "raised"} /\ ~dirlog.removed) => outdir[cur]

C7_Witness ==
    /\ config.start_stage = COMBINE_TO_MV_HEVC
    /\ pc = "item_done"
    /\ dirlog.removed
    /\ ~dirlog.purged
    /\ ~outdir[cur]

C9_SrtRecoveryResumesAtExtract ==
    recovery.kind = "SRTCreationError" =>
        config.skip_subtitles /\ config.start_stage = EXTRACT_MVC_AND_AUDIO

\* C9 as amended: after an accepted subtitle recovery skip_subtitles is set and the
\* pipeline resumes from CREATE_LEFT_RIGHT_FILES: no earlier stage is invoked.
C9_SrtRecoveryResumesAtSplit ==
    recovery.kind = "SRTCreationError" =>
        /\ config.skip_subtitles
        /\ config.start_stage = CREATE_LEFT_RIGHT_FILES
        /\ InProcessEach => invoked \subseteq CREATE_LEFT_RIGHT_FILES .. MOVE_FILES

C9_Witness ==
    /\ recovery.kind = "SRTCreationError"
    /\ cur = recovery.item
    /\ pc = "fifo_enter"
    /\ invoked = {CREATE_LEFT_RIGHT_FILES}

\* C10 as claimed: when the processing of a folder has ended, process_each was called
\* for every source of the folder.
C10_BatchProcessesEverySource ==
    (config.folder /\ gui \in {"completed", "failed", "crashed"}) => begun = Items

\* C11 as claimed: when process_each raises FileExistsError because the completed
\* output exists and overwrite is not set, no stage's tool was invoked and the
\* per-item output directory this process_each created no longer exists.
C11_SkipRemovesCreatedDir ==
    (gui = "running" /\ pc = "raised" /\ exc = "FileExistsError") =>
        /\ invoked = {}
        /\ dirlog.created => ~outdir[cur]

\* C12 as claimed: a stage's tool is started only when no process of an earlier stage
\* (of this source or of an earlier source of the batch) is still running, also after
\* a stage has failed.
C12_NoOverlappingStages ==
    [][(invoked' \ invoked # {}) => orphans = {}]_vars

\* C13 as claimed: run_command never blocks forever joining its spinner thread:
\* whenever it waits in spinner_thread.join(), the spinner thread has exited or is
\* bound to leave its loop (it is past the statement that clears stop_spinner_flag
\* and the flag is set).
C13_SpinnerStopsWithCommand ==
    (worker.pc = "join" /\ worker.kind = "run_command") =>
        \/ spinners[worker.spinner].pc = "exited"
        \/ /\ spinners[worker.spinner].pc \in {"reset_all", "loop"}
           /\ spinners[worker.spinner].stop_spinner_flag

\* C14 as claimed: a spinner loop that was running when terminate was requested and
\* has not exited yet sees a stop condition, whatever spinners were started since, and
\* a kill has been started or run for every name of PROCESS_NAMES_TO_KILL.
C14_TerminateStopsSpinners ==
    /\ \A k \in terminate_log.running :
          spinners[k].pc = "loop" =>
              ~LoopContinues(spinners[k].stop_spinner_flag, stop_all_spinners)
    /\ terminate_log.requested => kill_threads \cup killed = NamesToKill

\* C15 as claimed: when a command has raised, the spinner thread it started has
\* exited, whichever function started it.
C15_NoSpinnerAfterFailure ==
    worker.pc = "raised" => spinners[worker.spinner].pc = "exited"

\* the samples detect_crop_parameters parsed: the tokens made of digits only
ParsedSamples ==
    {crop_output[n] : n \in {m \in 1 .. Len(crop_output) :
                               /\ crop_output[m] # <<>>
                               /\ \A i \in 1 .. 4 : crop_output[m][i] >= 0}}

Greatest(values) == CHOOSE v \in values : \A u \in values : u <= v

Least(values) == CHOOSE v \in values : \A u \in values : v <= u

\* C16: for a non-empty list of parsed samples (W,H,X,Y) detect_crop_parameters
\* returns (max W, max H, min X, min Y); for 100:200:10:5 and 120:180:0:15 it
\* returns 120:200:0:5.
C16_CropIsMaxSizeMinOffset ==
    (crop_pc = "returned" /\ ParsedSamples # {}) =>
        /\ composite_crop = <<Greatest({p[1] : p \in ParsedSamples}),
                              Greatest({p[2] : p \in ParsedSamples}),
                              Least({p[3] : p \in ParsedSamples}),
                              Least({p[4] : p \in ParsedSamples})>>
        /\ ParsedSamples = {<<100, 200, 10, 5>>, <<120, 180, 0, 15>>}
              => composite_crop = <<120, 200, 0, 5>>

C16_Witness ==
    /\ crop_pc = "returned"
    /\ crop_output = <<(<<100, 200, 10, 5>>), (<<120, 180, 0, 15>>)>>
    /\ composite_crop = <<120, 200, 0, 5>>

\* C17 as claimed: every parsed sample lies inside the rectangle returned: its left
\* and top edges are not before the result's, its right and bottom edges not after.
C17_CropContainsEverySample ==
    (crop_pc = "returned" /\ ParsedSamples # {}) =>
        \A p \in ParsedSamples :
            /\ composite_crop[3] <= p[3]
            /\ composite_crop[4] <= p[4]
            /\ composite_crop[3] + composite_crop[1] >= p[3] + p[1]
            /\ composite_crop[4] + composite_crop[2] >= p[4] + p[2]

\* rectangle r lies inside rectangle box
Inside(r, box) ==
    /\ r[3] >= box[3]
    /\ r[4] >= box[4]
    /\ r[3] + r[1] <= box[3] + box[1]
    /\ r[4] + r[2] <= box[4] + box[2]

Reorderings(n) == {f \in [1 .. n -> 1 .. n] : \A i \in 1 .. n : \E j \in 1 .. n : f[j] = i}

\* C18: the rectangle aggregated from the samples is the same for every permutation of
\* the sample list, with any sample duplicated, and with any rectangle added that lies
\* inside the rectangle aggregated from the list.
C18_CropOrderIndependentIdempotent ==
    LET crop_params == CropParams(crop_output)
        n == Len(crop_params)
    IN (crop_pc = "returned" /\ n > 0) =>
        /\ \A f \in Reorderings(n) :
              CompositeCrop([i \in 1 .. n |-> crop_params[f[i]]]) = composite_crop
        /\ \A i \in 1 .. n :
              CompositeCrop(Append(crop_params, crop_params[i])) = composite_crop
        /\ \A r \in CropTokens :
              (parse_crop_params(r) # None /\ Inside(r, composite_crop))
                 => CompositeCrop(Append(crop_params, r)) = composite_crop

C18_Witness ==
    /\ crop_pc = "returned"
    /\ crop_output = <<(<<100, 180, 10, 15>>), (<<100, 200, 10, 5>>), (<<120, 180, 0, 15>>)>>
    /\ composite_crop = <<120, 200, 0, 5>>
    /\ Inside(crop_output[1], CompositeCrop(Tail(crop_output)))

\* the titles of the transcript, as the prober collected them
TitlesSeen == parse_makemkv_output(makemkv_output)

TitleAt(i) == TitlesSeen[CHOOSE n \in 1 .. Len(TitlesSeen) : TitlesSeen[n].index = i]

MvcIndices == {TitlesSeen[n].index : n \in {m \in 1 .. Len(TitlesSeen) : TitlesSeen[m].has_mvc}}

\* C19: the title selected carries an MVC stream and no title with an MVC stream is
\* longer; a longer title without an MVC stream is not selected.
C19_LongestMvcTitleSelected ==
    disc_info.state = "returned" =>
        /\ disc_info.main_title_number \in MvcIndices
        /\ \A i \in MvcIndices :
              TitleAt(i).duration <= TitleAt(disc_info.main_title_number).duration

C19_Witness ==
    /\ disc_info.state = "returned"
    /\ disc_info.main_title_number = 2
    /\ MvcIndices = {1, 2}
    /\ TitleAt(1).duration = 3599
    /\ TitleAt(2).duration = 3600

\* C20 as claimed: among the MVC titles of the longest duration the one with the
\* lowest index is selected, in whatever order the transcript lists the titles.
C20_TieBrokenByLowestIndex ==
    disc_info.state = "returned" =>
        \A i \in MvcIndices :
            TitleAt(i).duration >= TitleAt(disc_info.main_title_number).duration
               => disc_info.main_title_number <= i

\* C21: when the transcript of a source probed with makemkvcon has no title carrying
\* an MVC stream, get_disc_and_mvc_video_info raises ValueError and process_each
\* invokes no stage for that source.
C21_NoMvcFailsProbe ==
    (/\ gui = "running"
     /\ pc \notin {"process", "process_each"}
     /\ kind # "mts"
     /\ disc_info.state # "probing"
     /\ MvcIndices = {}) =>
        /\ pc = "raised"
        /\ exc = "ValueError"
        /\ disc_info.state = "ValueError"
        /\ invoked = {}

C21_Witness ==
    /\ pc = "raised"
    /\ exc = "ValueError"
    /\ Len(makemkv_output) = 2
    /\ MvcIndices = {}
    /\ kind = "image"
    /\ invoked = {}

\* one character is the other up to case, or both are separators ('_' or ' ')
SameChar(c, d) ==
    \/ c = d
    \/ {c, d} \subseteq {"_", " "}
    \/ {c, d} \in {{"M", "m"}, {"A", "a"}, {"V", "v"}, {"P", "p"}}

SameName(a, b) == Len(a) = Len(b) /\ \A i \in 1 .. Len(a) : SameChar(a[i], b[i])

\* C22: file_exists_normalized(p) is true iff some entry of p's directory has the same
\* name as p after lower-casing and treating '_' and ' ' as the same character; in
\* particular My_Movie_AVP.mov is found when "my movie_AVP.mov" is checked
C22_ExistsUpToCaseAndSeparator ==
    exists_result # "unset" =>
        /\ exists_result = "True" <=> \E item \in dir_entries : SameName(item, target_name)
        /\ (target_name = MovieAsked /\ MovieOnDisk \in dir_entries) => exists_result = "True"

C22_Witness ==
    /\ exists_result = "True"
    /\ target_name = MovieAsked
    /\ dir_entries = {MovieOnDisk, <<"M", "-", "V">>}

\* C23: on a successful run the final file is in the output root when the per-item
\* working directory is deleted, the directory is deleted iff keep_files is not set,
\* and after the run the final file exists in the output root; a relocation that
\* fails leaves the directory in place
C23_MoveThenRemoveUnlessKept ==
    /\ (pc \in {"remove_original", "item_done"} \/ (gui = "completed" /\ ~config.folder)) =>
          /\ final[cur]
          /\ MOVE_FILES \in completed
          /\ outdir[cur] <=> config.keep_files
          /\ dirlog.removed <=> ~config.keep_files
    /\ (dirlog.removed /\ pc # "process_each") => final[cur] /\ MOVE_FILES \in completed
    /\ (pc = "raised" /\ MOVE_FILES \notin completed /\ begun # {} /\ cur \in begun
        /\ dirlog.created) => outdir[cur]

C23_Witness ==
    /\ gui = "completed"
    /\ ~config.folder
    /\ ~config.keep_files
    /\ config.start_stage = FirstStage
    /\ final[cur]
    /\ ~outdir[cur]

Intermediates == {"mvc", "audio", "left", "right", "leftlog", "rightlog", "mvhevc"}

ConsumerOf(a) ==
    CASE a \in {"mvc", "leftlog", "rightlog"} -> CREATE_LEFT_RIGHT_FILES
      [] a \in {"left", "right"} -> COMBINE_TO_MV_HEVC
      [] a = "mvhevc" -> IF config.fx_upscale THEN UPSCALE_VIDEO ELSE CREATE_FINAL_FILE
      [] a = "audio" -> IF config.transcode_audio THEN TRANSCODE_AUDIO ELSE CREATE_FINAL_FILE

\* the intermediates a step of the current item deletes; a stage replacing its own
\* output (combine_to_mv_hevc unlinks the MV-HEVC file before writing it) deletes nothing
DeletedIntermediates ==
    ((Intermediates \cap files[cur]) \ files'[cur])
        \ (IF pc = "combine" /\ pc' = "raised" THEN {"mvhevc"} ELSE {})

\* C25: after the output folder has been prepared, a run with keep_files set deletes no
\* intermediate artifact and not the per-item working directory; a run with keep_files
\* unset deletes an intermediate only when the stage that consumes it has finished
\* successfully
C25_IntermediatesOutliveConsumers ==
    [][pc # "prepare" =>
          /\ config.keep_files => DeletedIntermediates = {} /\ (outdir[cur] => outdir'[cur])
          /\ ~config.keep_files => \A a \in DeletedIntermediates : ConsumerOf(a) \in completed']_vars

\* what a split writes besides the pipes: the eye movies and the encoder logs
SplitOutputs == {"left", "right", "leftlog", "rightlog"}

\* C26: when split_mvc_to_stereo has raised, the eye movies and the encoder logs it
\* wrote are still in place if keep_files is set and are deleted if keep_files is not set
C26_FailedSplitCleansUp ==
    (pc = "raised" /\ split.state = "raised") =>
        IF config.keep_files
        THEN "leftlog" \in files[cur]
        ELSE files[cur] \cap SplitOutputs = {}

\* C27: subtitle extraction that finds no subtitles (no subtitle track, or no non-empty
\* SRT file after OCR) raises SRTCreationError when continue_on_error is not set and
\* raises nothing when it is set, forced track or not
C27_NoSubtitlesRaisesOnlySrtError ==
    (/\ pc = "raised"
     /\ EXTRACT_SUBTITLES \in invoked \ completed
     /\ exc # "FfmpegError"
     /\ "srt" \notin files[cur]) =>
        /\ exc = "SRTCreationError"
        /\ ~config.continue_on_error

\* a line holds a known-fatal string; a line holds a noise-filter string
Fatal(line) == \E error \in MKV_ERROR_CODES : Contains(line, error)

Noise(line) == \E filter_string \in MKV_ERROR_FILTERS : Contains(line, filter_string)

\* the positions of the lines of the rip's output that hold no noise-filter string,
\* and the k-th of them
KeptPositions == {i \in 1 .. Len(mkv_output) : ~Noise(mkv_output[i])}

KthKept(k) == CHOOSE i \in KeptPositions : Cardinality({j \in KeptPositions : j < i}) = k - 1

C29_BitstreamNeverWithoutAudio ==
    /\ (pc = "srt" /\ EXTRACT_MVC_AND_AUDIO \in invoked) =>
          /\ EXTRACT_MVC_AND_AUDIO \in completed
          /\ {"mvc", "audio"} \subseteq files[cur]
    /\ (pc = "raised" /\ EXTRACT_MVC_AND_AUDIO \in invoked \ completed) =>
          CREATE_LEFT_RIGHT_FILES \notin invoked
    /\ (pc = "split_post" /\ "mvc" \in files[cur]) =>
          ("audio" \in files[cur] \/ "aac" \in files[cur])

\* the safe set [A-Za-z0-9 _-], restricted to the characters that occur in a name
SafeChars ==
    {"A", "B", "D", "U", "a", "b", "d", "k", "n", "o", "w", "1", "3", " ", "_", "-"}

\* C30: the display name of the descriptor the prober returns holds only characters of
\* the safe set [A-Za-z0-9 _-], whatever the kind of the source
C30_DisplayNameIsSafe ==
    probe_name.state = "returned" =>
        \A i \in 1 .. Len(probe_name.name) : probe_name.name[i] \in SafeChars

\* the positions of the CINFO:2,0 lines of the transcript
NamePositions == {i \in 1 .. Len(makemkv_output) : makemkv_output[i].tag = "CINFO"}

\* the transcript without its lines of other kinds
KnownLines == SelectSeq(makemkv_output, LAMBDA line : line.tag # "MSG")

\* C31: when the transcript holds several CINFO:2,0 lines the display title is taken
\* from the first of them (the default when there is none), and lines of any other
\* kind change neither the parsed name nor the titles, durations and MVC flags
C31_FirstNameLineWins ==
    disc_info.state = "returned" =>
        /\ disc_info.name =
              IF NamePositions = {}
              THEN DiscInfoName
              ELSE sanitize_filename(
                      makemkv_output[CHOOSE i \in NamePositions :
                                        \A j \in NamePositions : i <= j].name)
        /\ ParseLines(KnownLines) = ParseLines(makemkv_output)

\* C32: a non-empty frame-rate or resolution override is what both encoder commands
\* use, whatever the prober returned and whatever the kind of the source; an empty
\* override leaves the probed value
C32_OverrideTakesPrecedence ==
    commands.state = "built" =>
        \A command \in {commands.left, commands.right} :
           /\ split_input.resolution # "" => command.s = split_input.resolution
           /\ split_input.resolution = "" => command.s = split_input.probed_resolution
           /\ split_input.frame_rate # "" =>
                 command.r = split_input.frame_rate /\ command.output_r = split_input.frame_rate
           /\ split_input.frame_rate = "" =>
                 /\ command.r = split_input.probed_frame_rate
                 /\ command.output_r = split_input.probed_frame_rate

C32_Witness ==
    /\ commands.state = "built"
    /\ split_input.kind = "mts"
    /\ split_input.resolution = "1280x720"
    /\ split_input.frame_rate = ""
    /\ commands.right.s = "1280x720"
    /\ commands.right.r = "59.94"

\* C39: the left encoder reads the first pipe and the right encoder the second; the
\* decoder is given the first pipe and then the second, exchanged iff swap_eyes is set;
\* the two pipes are distinct
C39_PipesAssignedToEyes ==
    commands.state = "built" =>
        /\ commands.left.i = "left_fifo" /\ commands.left.output = "left"
        /\ commands.right.i = "right_fifo" /\ commands.right.output = "right"
        /\ commands.left.i # commands.right.i
        /\ commands.frim = IF split_input.swap_eyes
                           THEN <<commands.right.i, commands.left.i>>
                           ELSE <<commands.left.i, commands.right.i>>

C39_Witness ==
    /\ commands.state = "built"
    /\ split_input.swap_eyes
    /\ commands.frim = <<"right_fifo", "left_fifo">>
    /\ commands.left.i = "left_fifo"

\* C33: split_mvc_to_stereo, once entered, returns or raises, also when an encoder has
\* exited before it attached to its pipe
C33_SplitTerminates ==
    (split.state = "running") ~> (split.state \in {"returned", "raised"})

\* C34: prepare_output_folder_for_source deletes an existing per-item directory (and
\* what it holds) iff the start stage is the first member of Stage, and the directory
\* exists when it returns
C34_PurgeIffFirstStage ==
    [][pc = "prepare" /\ pc' # "prepare" =>
          /\ pc' = "exists_check"
          /\ outdir'[cur]
          /\ dirlog'.purged <=> (outdir[cur] /\ config.start_stage = CREATE_MKV)
          /\ IF outdir[cur] /\ config.start_stage = CREATE_MKV
             THEN files'[cur] = {}
             ELSE files'[cur] = files[cur]]_vars

C34_Witness ==
    /\ pc = "exists_check"
    /\ config.start_stage = CREATE_MKV
    /\ dirlog.purged
    /\ outdir[cur]
    /\ files[cur] = {}

\* C35: when process_each ends with FileExistsError (the item is skipped because its
\* output exists), it has deleted nothing that existed before: a per-item working
\* directory of an earlier run has not been purged, whatever the start stage
C35_SkipDeletesNothing ==
    (pc = "raised" /\ exc = "FileExistsError" /\ cur \in begun) =>
        /\ ~dirlog.purged
        /\ ~dirlog.removed

\* C36: in a folder batch, once a recovery re-invocation has been made for one failed
\* source, every other source is still processed from the first stage with the options
\* the operator configured, and a source completed before the failure is not processed
\* again (none of its stages is invoked)
C36_RecoveryConfinedToFailedSource ==
    (config.folder /\ InProcessEach /\ recovery.kind # "None" /\ cur # recovery.item) =>
        /\ config \in FolderConfigs
        /\ (cur < recovery.item /\ final[cur]) => invoked = {}

\* C37: pipes left at the two fixed paths by an earlier run never prevent the split:
\* temporary_fifo is entered with both pipes created whatever was at their paths, and
\* when it is left, by return or by exception, neither pipe path exists
C37_StalePipesNeverBlock ==
    [][/\ (pc = "fifo_enter" /\ pc' # "fifo_enter") =>
              /\ pc' = "launch_left"
              /\ split'.state = "running"
              /\ fifos' = Fifos
       /\ (pc = "fifo_exit" /\ pc' # "fifo_exit") => fifos' = {}]_vars

C37_Witness ==
    /\ split.stale = Fifos
    /\ split.state = "returned"
    /\ pc = "split_post"
    /\ fifos = {}

\* the five outcomes ProcessingThread.run can signal: process_completed,
\* mkv_creation_error, srt_creation_error, file_exists_error, error_occurred
OutcomeSignals ==
    {"completed", "mkv_creation_error", "srt_creation_error", "file_exists_error", "failed"}

\* C38: every run of the processing thread ends with one of the five outcome signals
\* emitted, whatever exception the pipeline raised
C38_RunEndsWithOutcomeSignal ==
    [][(pc # "idle" /\ pc' = "idle") => gui' \in OutcomeSignals]_vars

====
